---- MODULE Spec2Model ----
(***************************************************************************)
(* Model of the nanobanana image generator (ImageGenerator): the generate, *)
(* story-sequence, edit/restore and remix invocations, their external      *)
(* generation calls, response scanning, file saving and previews.          *)
(*                                                                         *)
(* Text is modelled in two ways.  Prompts are TLA+ strings built by        *)
(* concatenation.  Error messages, which the code searches with            *)
(* String.includes, are sequences of phrases (tokens): `includes` is       *)
(* membership of a phrase and toLowerCase maps phrases one by one.         *)
(***************************************************************************)
EXTENDS Integers, Sequences, FiniteSets, TLC

\* ------------------------------------------------------------------ bounds
\* largest outputCount a request carries
MaxCount == 3
\* longest list of parts in a response of the external service
MaxParts == 2
\* longest expanded prompt list an invocation of generate iterates over
MaxPrompts == 3

\* ------------------------------------------------------- program constants
\* generateStorySequence: steps = request.outputCount || 4
DefaultSteps == 4
\* isValidBase64ImageData: data.length < 100
MinDataLen == 100
\* isValidBase64ImageData: data.length < 1000
MinImageLen == 1000

\* ------------------------------------------------------------------- text
\* JavaScript undefined / null of an optional field
Undefined == "undefined"

\* String.prototype.toLowerCase on one phrase
ToLowerTok(t) ==
  CASE t = "API key not valid" -> "api key not valid"
    [] t = "PERMISSION DENIED" -> "permission denied"
    [] t = "Authentication failed" -> "authentication failed"
    [] t = "Authentication Failed" -> "authentication failed"
    [] t = "EACCES: " -> "eacces: "
    [] t = "An unexpected error occurred: " -> "an unexpected error occurred: "
    [] t = "API quota exceeded" -> "api quota exceeded"
    [] t = "The request was malformed" -> "the request was malformed"
    [] t = "The image generation service encountered a temporary internal error" ->
           "the image generation service encountered a temporary internal error"
    [] t = "API request failed with status " -> "api request failed with status "
    [] t = ": The provided API key is invalid" -> ": the provided api key is invalid"
    [] t = ": The provided API key does not have the necessary permissions" ->
           ": the provided api key does not have the necessary permissions"
    [] t = ". Please ensure your API key is valid" -> ". please ensure your api key is valid"
    [] OTHER -> t

\* toLowerCase on a message
ToLowerMsg(m) == [k \in 1..Len(m) |-> ToLowerTok(m[k])]

\* String.prototype.includes for a phrase
Includes(m, phrase) == \E k \in 1..Len(m) : m[k] = phrase

\* ----------------------------------------------------------------- errors
\* A thrown value: isError (instanceof Error), message (error.message, or
\* String(error) of a value that is no Error), hasResponse (a truthy
\* `response` property on an object) and its response.status.
MkError(isError, message, hasResponse, status) ==
  [isError |-> isError, message |-> message, hasResponse |-> hasResponse, status |-> status]

ErrInvalidKey == MkError(TRUE, <<"api key not valid">>, FALSE, 0)
ErrInvalidKeyCap == MkError(TRUE, <<"API key not valid">>, TRUE, 400)
ErrQuota403 == MkError(TRUE, <<"quota exceeded">>, TRUE, 403)
ErrForbidden == MkError(TRUE, <<"forbidden">>, TRUE, 403)
ErrServer == MkError(TRUE, <<"internal">>, TRUE, 500)
ErrTimeout == MkError(TRUE, <<"timeout">>, FALSE, 0)
ErrRawAuth == MkError(TRUE, <<"Authentication Failed">>, FALSE, 0)
ErrThrownString == MkError(FALSE, <<"PERMISSION DENIED">>, FALSE, 0)
ErrAccess == MkError(TRUE, <<"EACCES: ", "permission denied">>, FALSE, 0)
ErrNoSpace == MkError(TRUE, <<"ENOSPC: ", "no space left on device">>, FALSE, 0)

\* errors of the external generation call
ApiErrors ==
  {ErrInvalidKey, ErrInvalidKeyCap, ErrQuota403, ErrForbidden, ErrServer,
   ErrTimeout, ErrRawAuth, ErrThrownString}

\* errors of the file system (directory creation, read, write)
IoErrors == {ErrAccess, ErrNoSpace}

MsgInvalidKey == <<"Authentication failed", ": The provided API key is invalid">>
MsgPermission ==
  <<"Authentication failed", ": The provided API key does not have the necessary permissions">>
MsgQuota == <<"API quota exceeded">>
MsgMalformed == <<"The request was malformed">>
MsgForbidden == <<"Authentication failed", ". Please ensure your API key is valid">>
MsgServer == <<"The image generation service encountered a temporary internal error">>
MsgStatus(status) == <<"API request failed with status ", ToString(status)>>
MsgUnexpected(errorMessage) == <<"An unexpected error occurred: ">> \o errorMessage

\* handleApiError looking at the status code before the message text
handleApiError_StatusFirst(error) ==
  LET errorMessage == IF error.isError THEN error.message ELSE ToLowerMsg(error.message)
  IN  IF error.hasResponse
      THEN CASE error.status = 400 -> MsgMalformed
             [] error.status = 403 -> MsgForbidden
             [] error.status = 500 -> MsgServer
             [] OTHER -> MsgStatus(error.status)
      ELSE IF Includes(errorMessage, "api key not valid") THEN MsgInvalidKey
      ELSE IF Includes(errorMessage, "permission denied") THEN MsgPermission
      ELSE IF Includes(errorMessage, "quota exceeded") THEN MsgQuota
      ELSE MsgUnexpected(errorMessage)

\* handleApiError: the message text decides first, then the status code
handleApiError(error) ==
  LET errorMessage == IF error.isError THEN error.message ELSE ToLowerMsg(error.message)
  IN  IF Includes(errorMessage, "api key not valid") THEN MsgInvalidKey
      ELSE IF Includes(errorMessage, "permission denied") THEN MsgPermission
      ELSE IF Includes(errorMessage, "quota exceeded") THEN MsgQuota
      ELSE IF error.hasResponse
           THEN CASE error.status = 400 -> MsgMalformed
                  [] error.status = 403 -> MsgForbidden
                  [] error.status = 500 -> MsgServer
                  [] OTHER -> MsgStatus(error.status)
           ELSE MsgUnexpected(errorMessage)

\* thrown values for the classification on its own: an Error or another
\* value, its text, and no response or one with a status
ClassifyMessages ==
  {<<"api key not valid">>, <<"permission denied">>, <<"quota exceeded">>, <<"timeout">>,
   <<"Authentication Failed">>, <<"PERMISSION DENIED">>, <<"API key not valid">>,
   <<"Request failed: ", "authentication failed">>, <<"EACCES: ", "permission denied">>}
ClassifyStatuses == {400, 403, 500, 429}
ClassifyErrors ==
  {MkError(isErr, m, FALSE, 0) : isErr \in BOOLEAN, m \in ClassifyMessages} \cup
  {MkError(isErr, m, TRUE, st) : isErr \in BOOLEAN, m \in ClassifyMessages, st \in ClassifyStatuses}

\* errorMessage.toLowerCase().includes('authentication failed')
IsAuthMessage(errorMessage) == Includes(ToLowerMsg(errorMessage), "authentication failed")

\* ------------------------------------------------------- response scanner
\* A part of a response: inlineLen is the length of part.inlineData.data
\* (0: no inline data, or an empty string), textLen the length of part.text
\* (0: no text, or empty), textB64 whether the text matches
\* /^[A-Za-z0-9+\/]*={0,2}$/.
MkPart(inlineLen, textLen, textB64) ==
  [inlineLen |-> inlineLen, textLen |-> textLen, textB64 |-> textB64]

PartInline == MkPart(2000, 0, FALSE)
PartTextImage == MkPart(0, 1200, TRUE)
PartTextFloor == MkPart(0, 1000, TRUE)
PartTextShort == MkPart(0, 500, TRUE)
PartTextProse == MkPart(0, 1200, FALSE)

PartKinds == {PartInline, PartTextImage, PartTextFloor, PartTextShort, PartTextProse}

\* isValidBase64ImageData refusing a text of exactly the floor length
isValidBase64ImageData_FloorExclusive(len, b64) ==
  IF len = 0 \/ len < MinDataLen THEN FALSE
  ELSE IF ~b64 THEN FALSE
  ELSE IF len <= MinImageLen THEN FALSE
  ELSE TRUE

\* isValidBase64ImageData(data), data given by its length and regex match
isValidBase64ImageData(len, b64) ==
  IF len = 0 \/ len < MinDataLen THEN FALSE
  ELSE IF ~b64 THEN FALSE
  ELSE IF len < MinImageLen THEN FALSE
  ELSE TRUE

\* the test of one part: inlineData?.data, else text && isValidBase64ImageData
PartIsImage(part) ==
  IF part.inlineLen > 0 THEN TRUE
  ELSE part.textLen > 0 /\ isValidBase64ImageData(part.textLen, part.textB64)

\* index of the first part the loop over parts saves, 0 when none
FirstImagePart(parts) ==
  IF \E k \in 1..Len(parts) : PartIsImage(parts[k])
  THEN CHOOSE k \in 1..Len(parts) :
         PartIsImage(parts[k]) /\ \A j \in 1..(k - 1) : ~PartIsImage(parts[j])
  ELSE 0

\* A response: hasParts is `response.candidates &&
\* response.candidates[0]?.content?.parts`, parts the list of parts.
MkResponse(hasParts, parts) == [hasParts |-> hasParts, parts |-> parts]

SeqsUpTo(S, n) == UNION {[1..k -> S] : k \in 0..n}

Responses ==
  {MkResponse(FALSE, <<>>)} \cup {MkResponse(TRUE, p) : p \in SeqsUpTo(PartKinds, MaxParts)}

\* parts of the scan on its own: those above, texts just under the two
\* length tests, a part with nothing, and a part with inline data and text
PartTextBelowFloor == MkPart(0, 999, TRUE)
PartTextTiny == MkPart(0, 99, TRUE)
PartEmpty == MkPart(0, 0, FALSE)
PartInlineAndText == MkPart(3000, 1200, TRUE)

ScanParts ==
  PartKinds \cup {PartTextBelowFloor, PartTextTiny, PartEmpty, PartInlineAndText}

ScanResponses ==
  {MkResponse(FALSE, <<>>)} \cup {MkResponse(TRUE, p) : p \in SeqsUpTo(ScanParts, MaxParts)}

\* whether the scan of a response finds an image to save
ResponseHasImage(response) == response.hasParts /\ FirstImagePart(response.parts) > 0

\* -------------------------------------------------------- batch expansion
\* an optional list that is absent (undefined)
NoList == <<Undefined>>

\* the switch with an unknown variation carried into the prompt as it is
VariationPhrases_UnknownKept(variation) ==
  CASE variation = "lighting" -> <<", dramatic lighting", ", soft lighting">>
    [] variation = "angle" -> <<", from above", ", close-up view">>
    [] variation = "color-palette" -> <<", warm color palette", ", cool color palette">>
    [] variation = "composition" -> <<", centered composition", ", rule of thirds composition">>
    [] variation = "mood" -> <<", cheerful mood", ", dramatic mood">>
    [] variation = "season" -> <<", in spring", ", in winter">>
    [] variation = "time-of-day" -> <<", at sunrise", ", at sunset">>
    [] OTHER -> <<", " \o variation>>

\* the switch with the two lighting phrasings pushed in the other order
VariationPhrases_SoftFirst(variation) ==
  CASE variation = "lighting" -> <<", soft lighting", ", dramatic lighting">>
    [] variation = "angle" -> <<", from above", ", close-up view">>
    [] variation = "color-palette" -> <<", warm color palette", ", cool color palette">>
    [] variation = "composition" -> <<", centered composition", ", rule of thirds composition">>
    [] variation = "mood" -> <<", cheerful mood", ", dramatic mood">>
    [] variation = "season" -> <<", in spring", ", in winter">>
    [] variation = "time-of-day" -> <<", at sunrise", ", at sunset">>
    [] OTHER -> <<>>

\* the two phrasings the switch appends for a variation, none if unknown
VariationPhrases(variation) ==
  CASE variation = "lighting" -> <<", dramatic lighting", ", soft lighting">>
    [] variation = "angle" -> <<", from above", ", close-up view">>
    [] variation = "color-palette" -> <<", warm color palette", ", cool color palette">>
    [] variation = "composition" -> <<", centered composition", ", rule of thirds composition">>
    [] variation = "mood" -> <<", cheerful mood", ", dramatic mood">>
    [] variation = "season" -> <<", in spring", ", in winter">>
    [] variation = "time-of-day" -> <<", at sunrise", ", at sunset">>
    [] OTHER -> <<>>

\* the inner loop over request.variations for one base prompt
RECURSIVE VariationsOf(_, _)
VariationsOf(baseP, variations) ==
  IF variations = <<>> THEN <<>>
  ELSE LET ph == VariationPhrases(Head(variations))
       IN  [k \in 1..Len(ph) |-> baseP \o ph[k]] \o VariationsOf(baseP, Tail(variations))

\* the outer loop over basePrompts
RECURSIVE VariationPrompts(_, _)
VariationPrompts(basePrompts, variations) ==
  IF basePrompts = <<>> THEN <<>>
  ELSE VariationsOf(Head(basePrompts), variations) \o
       VariationPrompts(Tail(basePrompts), variations)

\* the style loop run over the styles from the last to the first
StylePrompts_Reversed(request) ==
  IF request.styles # NoList /\ Len(request.styles) > 0
  THEN [k \in 1..Len(request.styles) |->
          request.prompt \o ", " \o request.styles[Len(request.styles) + 1 - k] \o " style"]
  ELSE <<>>

\* the prompts after the style loop
StylePrompts(request) ==
  IF request.styles # NoList /\ Len(request.styles) > 0
  THEN [k \in 1..Len(request.styles) |-> request.prompt \o ", " \o request.styles[k] \o " style"]
  ELSE <<>>

\* the variation step pushing onto the list instead of replacing it
VariedPrompts_Additive(request) ==
  LET prompts == StylePrompts(request)
  IN  IF request.variations # NoList /\ Len(request.variations) > 0
      THEN LET basePrompts == IF Len(prompts) > 0 THEN prompts ELSE <<request.prompt>>
               variationPrompts == VariationPrompts(basePrompts, request.variations)
           IN  prompts \o variationPrompts
      ELSE prompts

\* the prompts after the variation step, which replaces the list when it
\* produced anything
VariedPrompts(request) ==
  LET prompts == StylePrompts(request)
  IN  IF request.variations # NoList /\ Len(request.variations) > 0
      THEN LET basePrompts == IF Len(prompts) > 0 THEN prompts ELSE <<request.prompt>>
               variationPrompts == VariationPrompts(basePrompts, request.variations)
           IN  IF Len(variationPrompts) > 0 THEN variationPrompts ELSE prompts
      ELSE prompts

\* the prompts before the final truncation
AccumulatedPrompts(request) ==
  LET prompts == VariedPrompts(request)
  IN  IF Len(prompts) = 0 /\ request.outputCount # 0 /\ request.outputCount > 1
      THEN [k \in 1..request.outputCount |-> request.prompt]
      ELSE prompts

\* buildBatchPrompts returning prompts without the [basePrompt] of an empty
\* list
buildBatchPrompts_NoFallback(request) ==
  IF request.styles = NoList /\ request.variations = NoList /\ request.outputCount = 0
  THEN <<request.prompt>>
  ELSE LET acc == AccumulatedPrompts(request)
       IN  IF request.outputCount # 0 /\ Len(acc) > request.outputCount
           THEN SubSeq(acc, 1, request.outputCount)
           ELSE acc

\* buildBatchPrompts without the splice at outputCount
buildBatchPrompts_NoTruncate(request) ==
  IF request.styles = NoList /\ request.variations = NoList /\ request.outputCount = 0
  THEN <<request.prompt>>
  ELSE LET prompts == AccumulatedPrompts(request)
       IN  IF Len(prompts) > 0 THEN prompts ELSE <<request.prompt>>

\* buildBatchPrompts(request); outputCount 0 is an absent (falsy) count
buildBatchPrompts(request) ==
  IF request.styles = NoList /\ request.variations = NoList /\ request.outputCount = 0
  THEN <<request.prompt>>
  ELSE LET acc == AccumulatedPrompts(request)
           prompts == IF request.outputCount # 0 /\ Len(acc) > request.outputCount
                      THEN SubSeq(acc, 1, request.outputCount)
                      ELSE acc
       IN  IF Len(prompts) > 0 THEN prompts ELSE <<request.prompt>>

\* --------------------------------------------------------------- requests
BasePrompt == "cat"

StyleLists == {NoList, <<>>, <<"watercolor">>, <<"watercolor", "sketch">>}
VariationLists == {NoList, <<>>, <<"lighting">>, <<"sequence-step">>, <<"mood", "lighting">>}

MkRequest(mode, inputImage, inputImages, outputCount, styles, variations, fileFormat, preview, noPreview) ==
  [prompt |-> BasePrompt, mode |-> mode, inputImage |-> inputImage,
   inputImages |-> inputImages, outputCount |-> outputCount, styles |-> styles,
   variations |-> variations, fileFormat |-> fileFormat, preview |-> preview,
   noPreview |-> noPreview]

\* preview / noPreview as the tool handlers pass them
PreviewFlags == {<<FALSE, FALSE>>, <<TRUE, FALSE>>, <<TRUE, TRUE>>}

\* requests of generateTextToImage
GenerateRequests ==
  {r \in {MkRequest("generate", Undefined, NoList, c, s, v, Undefined, pf[1], pf[2]) :
            c \in 0..MaxCount, s \in StyleLists, v \in VariationLists, pf \in PreviewFlags} :
     Len(buildBatchPrompts(r)) <= MaxPrompts}

\* variation lists of batch expansion alone: every category of the switch,
\* and names it does not know at each place of the list
BatchVariationLists ==
  VariationLists \cup
    {<<"bogus">>, <<"bogus", "lighting">>, <<"lighting", "bogus">>, <<"angle", "bogus", "season">>,
     <<"color-palette", "composition">>, <<"time-of-day", "lighting", "angle">>}

\* requests of buildBatchPrompts
BatchRequests ==
  {MkRequest("generate", Undefined, NoList, c, s, v, Undefined, FALSE, FALSE) :
     c \in 0..MaxCount, s \in StyleLists, v \in BatchVariationLists}

\* requests of generateStorySequence, as the generate_story handler builds them
StoryRequests ==
  {MkRequest("generate", Undefined, NoList, c, NoList, <<"sequence-step">>, Undefined,
             pf[1], pf[2]) : c \in 0..MaxCount, pf \in PreviewFlags}

\* the type argument of a story sequence
StoryTypes == {"story", "process"}

\* references to input images; MissingRef names no file
InputRefs == {"a.png", "b.png", "missing.png"}

\* requests of editImage (modes edit and restore)
EditRequests ==
  {MkRequest(m, f, NoList, 0, NoList, NoList, Undefined, pf[1], pf[2]) :
     m \in {"edit", "restore"}, f \in InputRefs \cup {Undefined, ""}, pf \in PreviewFlags}

\* requests of remixImage
RemixRequests ==
  {MkRequest("remix", Undefined, fs, 0, NoList, NoList, Undefined, pf[1], pf[2]) :
     fs \in {NoList} \cup SeqsUpTo(InputRefs, 2) \cup {<<"a.png", "b.png", "a.png">>},
     pf \in PreviewFlags}

\* ---------------------------------------------------- credential resolver
\* the four settings, in the order validateAuthentication reads them
EnvNames ==
  <<"NANOBANANA_GEMINI_API_KEY", "NANOBANANA_GOOGLE_API_KEY", "GEMINI_API_KEY", "GOOGLE_API_KEY">>

\* the value of a setting: absent, empty, or a key
EnvValues == {Undefined, "", "key-A", "key-B"}

\* process.env restricted to the four settings
Envs == [{EnvNames[k] : k \in 1..Len(EnvNames)} -> EnvValues]

\* a value that an `if (value)` or a `value || other` takes as false
Falsy(value) == value = Undefined \/ value = ""

\* an AuthConfig, and the absent one
MkAuthConfig(apiKey, keyType) == [apiKey |-> apiKey, keyType |-> keyType]
NoAuthConfig == MkAuthConfig(Undefined, Undefined)

\* the message of the Error validateAuthentication throws
MsgNoApiKey ==
  <<"ERROR: No valid API key found. Please set ", "NANOBANANA_GEMINI_API_KEY", ", ",
    "NANOBANANA_GOOGLE_API_KEY", ", ", "GEMINI_API_KEY", ", or ", "GOOGLE_API_KEY",
    " environment variable.">>

\* validateAuthentication reading GEMINI_API_KEY before NANOBANANA_GOOGLE_API_KEY
validateAuthentication_GeminiSecond(environment) ==
  IF ~Falsy(environment["NANOBANANA_GEMINI_API_KEY"])
  THEN [threw |-> FALSE, error |-> <<>>,
        config |-> MkAuthConfig(environment["NANOBANANA_GEMINI_API_KEY"], "GEMINI_API_KEY")]
  ELSE IF ~Falsy(environment["GEMINI_API_KEY"])
  THEN [threw |-> FALSE, error |-> <<>>,
        config |-> MkAuthConfig(environment["GEMINI_API_KEY"], "GEMINI_API_KEY")]
  ELSE IF ~Falsy(environment["NANOBANANA_GOOGLE_API_KEY"])
  THEN [threw |-> FALSE, error |-> <<>>,
        config |-> MkAuthConfig(environment["NANOBANANA_GOOGLE_API_KEY"], "GOOGLE_API_KEY")]
  ELSE IF ~Falsy(environment["GOOGLE_API_KEY"])
  THEN [threw |-> FALSE, error |-> <<>>,
        config |-> MkAuthConfig(environment["GOOGLE_API_KEY"], "GOOGLE_API_KEY")]
  ELSE [threw |-> TRUE, error |-> MsgNoApiKey, config |-> NoAuthConfig]

\* validateAuthentication(): the AuthConfig returned, or threw with the error
validateAuthentication(environment) ==
  IF ~Falsy(environment["NANOBANANA_GEMINI_API_KEY"])
  THEN [threw |-> FALSE, error |-> <<>>,
        config |-> MkAuthConfig(environment["NANOBANANA_GEMINI_API_KEY"], "GEMINI_API_KEY")]
  ELSE IF ~Falsy(environment["NANOBANANA_GOOGLE_API_KEY"])
  THEN [threw |-> FALSE, error |-> <<>>,
        config |-> MkAuthConfig(environment["NANOBANANA_GOOGLE_API_KEY"], "GOOGLE_API_KEY")]
  ELSE IF ~Falsy(environment["GEMINI_API_KEY"])
  THEN [threw |-> FALSE, error |-> <<>>,
        config |-> MkAuthConfig(environment["GEMINI_API_KEY"], "GEMINI_API_KEY")]
  ELSE IF ~Falsy(environment["GOOGLE_API_KEY"])
  THEN [threw |-> FALSE, error |-> <<>>,
        config |-> MkAuthConfig(environment["GOOGLE_API_KEY"], "GOOGLE_API_KEY")]
  ELSE [threw |-> TRUE, error |-> MsgNoApiKey, config |-> NoAuthConfig]

\* the environments the server is started in when its tools are exercised:
\* no setting at all, and GOOGLE_API_KEY alone
NoEnv == [n \in {EnvNames[k] : k \in 1..Len(EnvNames)} |-> Undefined]
ServerEnvs == {NoEnv, [NoEnv EXCEPT !["GOOGLE_API_KEY"] = "key-A"]}

\* ------------------------------------------------------------ tool surface
\* the tools of the switch in the CallToolRequestSchema handler
ToolNames ==
  {"generate_image", "edit_image", "restore_image", "remix_image", "generate_icon",
   "generate_pattern", "generate_story", "generate_diagram"}

\* a name the switch does not know
UnknownTool == "resize_image"

\* value || fallback
OrElse(value, fallback) == IF Falsy(value) THEN fallback ELSE value

\* the arguments of generate_icon, generate_pattern and generate_diagram:
\* prompt, type and one more option (background, density, layout), with sizes
MkToolArgs(prompt, type, option, sizes) ==
  [prompt |-> prompt, type |-> type, option |-> option, sizes |-> sizes]

NoToolArgs == MkToolArgs(Undefined, Undefined, Undefined, NoList)

IconArgs ==
  {NoToolArgs, MkToolArgs("logo", "favicon", "white", <<"64", "128">>)}
PatternArgs == {NoToolArgs, MkToolArgs("dots", "tiled", "sparse", NoList)}
DiagramArgs == {NoToolArgs, MkToolArgs("login flow", "sequence", "radial", NoList)}

\* buildIconPrompt(args), with the default style and corners
buildIconPrompt(args) ==
  LET basePrompt == OrElse(args.prompt, "app icon")
      type == OrElse(args.type, "app-icon")
      background == OrElse(args.option, "transparent")
  IN  basePrompt \o ", modern style " \o type \o
      (IF type = "app-icon" THEN ", rounded corners" ELSE "") \o
      (IF background # "transparent" THEN ", " \o background \o " background" ELSE "") \o
      ", clean design, high quality, professional"

\* buildPatternPrompt(args), with the default style, colors and size
buildPatternPrompt(args) ==
  LET basePrompt == OrElse(args.prompt, "abstract pattern")
      type == OrElse(args.type, "seamless")
      density == OrElse(args.option, "medium")
  IN  basePrompt \o ", abstract style " \o type \o " pattern, " \o density \o
      " density, colorful colors" \o
      (IF type = "seamless" THEN ", tileable, repeating pattern" ELSE "") \o
      ", 256x256 tile size, high quality"

\* buildDiagramPrompt(args), with the default style, complexity, colors and
\* annotations
buildDiagramPrompt(args) ==
  LET basePrompt == OrElse(args.prompt, "system diagram")
      type == OrElse(args.type, "flowchart")
      layout == OrElse(args.option, "hierarchical")
  IN  basePrompt \o ", " \o type \o " diagram, professional style, " \o layout \o " layout" \o
      ", detailed level of detail, accent color scheme" \o
      ", detailed annotations and labels" \o
      ", clean technical illustration, clear visual hierarchy"

\* a request with another prompt
WithPrompt(req, prompt) == [req EXCEPT !.prompt = prompt]

\* the requests the generate_icon, generate_pattern and generate_diagram
\* cases build
IconRequests ==
  {WithPrompt(MkRequest("generate", Undefined, NoList, IF a.sizes = NoList \/ Len(a.sizes) = 0 THEN 1 ELSE Len(a.sizes), NoList, NoList, "png", pf[1], pf[2]), buildIconPrompt(a)) :
     a \in IconArgs, pf \in PreviewFlags}
PatternRequests ==
  {WithPrompt(MkRequest("generate", Undefined, NoList, 1, NoList, NoList, Undefined, pf[1], pf[2]), buildPatternPrompt(a)) :
     a \in PatternArgs, pf \in PreviewFlags}
DiagramRequests ==
  {WithPrompt(MkRequest("generate", Undefined, NoList, 1, NoList, NoList, Undefined, pf[1], pf[2]), buildDiagramPrompt(a)) :
     a \in DiagramArgs, pf \in PreviewFlags}

\* the tools that end in generateTextToImage, each with its requests
GenerateTools == {"generate_image", "generate_icon", "generate_pattern", "generate_diagram"}
RequestsOfTool(name) ==
  CASE name = "generate_image" -> GenerateRequests
    [] name = "generate_icon" -> IconRequests
    [] name = "generate_pattern" -> PatternRequests
    [] OTHER -> DiagramRequests

\* ------------------------------------------------------------ file handler
\* FileHandler.ensureOutputDirectory(): the directory it returns
OutputDir == "out"

\* the input files that exist, and the directories findInputFile searches
FilesPresent == {"a.png", "b.png"}
SearchDirs == <<"cwd", "images", "input">>

\* FileHandler.findInputFile(reference)
findInputFile(reference) ==
  [found |-> reference \in FilesPresent,
   filePath |-> IF reference \in FilesPresent THEN "cwd/" \o reference ELSE Undefined,
   searchedPaths |-> SearchDirs]

\* FileHandler.generateFilename(text, format, index)
generateFilename(text, format, index) ==
  text \o "_" \o ToString(index) \o "." \o (IF format = Undefined THEN "png" ELSE format)

\* the path FileHandler.saveImageFromBase64(data, outputPath, filename) returns
SavedPath(outputPath, filename) == outputPath \o "/" \o filename

\* ------------------------------------------------------------------ state
VARIABLES
  op,             \* the method that runs: none, generate, story, edit, remix
  pc,             \* its position: idle, loop, await, save, read, inputs, preview, done
  request,        \* its request
  storyType,      \* args.type of a story sequence
  prompts,        \* generate: the expanded prompts
  i,              \* the loop index (prompt, step or input image)
  generatedFiles, \* the local list generatedFiles
  firstError,     \* the local firstError, <<>> for null
  imageBase64,    \* the part whose data is being saved
  inFlight,       \* external generation calls issued and not yet settled
  callLog,        \* the prompt or step index of each external call of this invocation
  written,        \* files written to disk by this invocation
  outcomes,       \* how each prompt or step of this invocation ended
  authError,      \* the classified message of an authentication-class failure
  opens,          \* preview: state of the open command of each file
  result,         \* the returned result
  env,            \* the server: the environment it was started in
  authConfig,     \* the server: the AuthConfig of its image generator
  initializationError, \* the server: the error of its constructor, <<>> for null
  toolName,       \* the name of the last tool call
  toolReply,      \* what the last tool call gave its caller
  response,       \* the response whose parts are being scanned
  thrown          \* the first value thrown inside this invocation, NoError for none

\* the state of the server, which an invocation of the generator leaves alone
serverVars == <<env, authConfig, initializationError, toolName, toolReply>>

vars ==
  <<op, pc, request, storyType, prompts, i, generatedFiles, firstError, imageBase64,
    inFlight, callLog, written, outcomes, authError, opens, result, env, authConfig,
    initializationError, toolName, toolReply, response, thrown>>

\* no response in hand, and no value thrown
NoResponse == MkResponse(FALSE, <<>>)
NoError == MkError(FALSE, <<>>, FALSE, 0)

\* no image data (imageBase64 undefined)
NoImage == MkPart(0, 0, FALSE)

\* an ImageGenerationResponse; generatedFiles <<>> and error <<>> when absent
MkResult(success, message, files, error) ==
  [returned |-> TRUE, success |-> success, message |-> message,
   generatedFiles |-> files, error |-> error]

NoResult ==
  [returned |-> FALSE, success |-> FALSE, message |-> "", generatedFiles |-> <<>>,
   error |-> <<>>]

IdleRequest ==
  MkRequest("generate", Undefined, NoList, 0, NoList, NoList, Undefined, FALSE, FALSE)

\* what a tool call gives its caller: the text of its content, or the
\* message of the Error it throws
MkReply(threw, error, text) == [threw |-> threw, error |-> error, text |-> text]
NoReply == MkReply(FALSE, <<>>, "")

\* no invocation of the generator is running
GeneratorIdle ==
  /\ op = "none"
  /\ request = IdleRequest
  /\ storyType = "story"
  /\ prompts = <<>>
  /\ i = 0
  /\ generatedFiles = <<>>
  /\ firstError = <<>>
  /\ imageBase64 = NoImage
  /\ inFlight = 0
  /\ callLog = <<>>
  /\ written = <<>>
  /\ outcomes = <<>>
  /\ authError = <<>>
  /\ opens = <<>>
  /\ result = NoResult
  /\ response = NoResponse
  /\ thrown = NoError

\* the constructor of NanoBananaServer: validateAuthentication, whose error
\* is kept as initializationError
Constructed(environment) ==
  /\ env = environment
  /\ authConfig = validateAuthentication(environment).config
  /\ initializationError = validateAuthentication(environment).error
  /\ toolName = ""
  /\ toolReply = NoReply

\* the server after its construction, no tool called yet
Init ==
  /\ pc = "idle"
  /\ GeneratorIdle
  /\ \E environment \in ServerEnvs : Constructed(environment)

\* the number of external generation calls this invocation has issued
Calls == Len(callLog)

\* the handler's check of initializationError is skipped
CanInvoke_NoInitCheck == pc = "idle"

\* a tool call reaches the switch: no initializationError
CanInvoke == pc = "idle" /\ initializationError = <<>>

\* the tool call that starts an invocation
Dispatch(name) ==
  /\ toolName' = name
  /\ toolReply' = NoReply
  /\ UNCHANGED <<env, authConfig, initializationError>>

\* the locals and the bookkeeping of a fresh invocation
Fresh ==
  /\ i' = 0
  /\ generatedFiles' = <<>>
  /\ firstError' = <<>>
  /\ imageBase64' = NoImage
  /\ inFlight' = 0
  /\ callLog' = <<>>
  /\ written' = <<>>
  /\ outcomes' = <<>>
  /\ authError' = <<>>
  /\ opens' = <<>>
  /\ response' = NoResponse

\* `return r`
Return(r) ==
  /\ result' = r
  /\ pc' = "done"

\* generatedFiles.map: a bullet (written "* " here) before each file, joined
\* by newlines
RECURSIVE JoinFiles(_)
JoinFiles(files) ==
  IF files = <<>> THEN ""
  ELSE IF Len(files) = 1 THEN "* " \o files[1]
  ELSE "* " \o files[1] \o "\n" \o JoinFiles(Tail(files))

\* the end of the tool handler: a successful response becomes the text of
\* the reply, another one the Error thrown with response.error ||
\* response.message; nothing of an invocation is kept for the next one
HandlerRespond ==
  /\ pc = "done"
  /\ toolReply' =
       IF result.success
       THEN MkReply(FALSE, <<>>,
                    result.message \o "\n\nGenerated files:\n" \o
                      (IF result.generatedFiles = <<>> THEN "None"
                       ELSE JoinFiles(result.generatedFiles)))
       ELSE MkReply(TRUE, IF result.error # <<>> THEN result.error ELSE <<result.message>>,
                    "")
  /\ op' = "none"
  /\ pc' = "idle"
  /\ request' = IdleRequest
  /\ storyType' = "story"
  /\ prompts' = <<>>
  /\ result' = NoResult
  /\ Fresh
  /\ thrown' = NoError
  /\ UNCHANGED <<env, authConfig, initializationError, toolName>>

\* the tool handler with an initializationError: it is thrown, whatever the
\* tool and its arguments
CallToolRejected ==
  /\ pc = "idle"
  /\ initializationError # <<>>
  /\ \E name \in ToolNames \cup {UnknownTool} : toolName' = name
  /\ toolReply' = MkReply(TRUE, initializationError, "")
  /\ UNCHANGED <<op, pc, request, storyType, prompts, i, generatedFiles, firstError,
                 imageBase64, inFlight, callLog, written, outcomes, authError, opens,
                 result, env, authConfig, initializationError, response, thrown>>

\* the default case of the switch: Unknown tool
CallToolUnknown ==
  /\ CanInvoke
  /\ toolName' = UnknownTool
  /\ toolReply' = MkReply(TRUE, <<"Unknown tool: ", UnknownTool>>, "")
  /\ UNCHANGED <<op, pc, request, storyType, prompts, i, generatedFiles, firstError,
                 imageBase64, inFlight, callLog, written, outcomes, authError, opens,
                 result, env, authConfig, initializationError, response, thrown>>

\* ---------------------------------------------------------------- preview
\* shouldAutoPreview(request)
shouldAutoPreview(req) ==
  IF req.noPreview THEN FALSE
  ELSE IF req.preview THEN TRUE
  ELSE FALSE

\* handlePreview that opens the files whatever the request's flags say
handlePreview_Always(files, req) ==
  IF Len(files) = 0
  THEN <<>>
  ELSE [k \in 1..Len(files) |-> "running"]

\* handlePreview(files, request): the open commands it starts, one per file
handlePreview(files, req) ==
  IF ~shouldAutoPreview(req) \/ Len(files) = 0
  THEN <<>>
  ELSE [k \in 1..Len(files) |-> "running"]

\* Promise.all(previewPromises) has settled
PreviewSettled == \A k \in 1..Len(opens) : opens[k] # "running"

\* openImagePreview that starts a failed open command again
OpenImagePreviewEnds_RetriesFailed ==
  /\ pc = "preview"
  /\ \E k \in 1..Len(opens) :
       \/ /\ opens[k] = "running"
          /\ \E how \in {"opened", "failed"} : opens' = [opens EXCEPT ![k] = how]
       \/ /\ opens[k] = "failed"
          /\ opens' = [opens EXCEPT ![k] = "running"]
  /\ UNCHANGED <<op, pc, request, storyType, prompts, i, generatedFiles, firstError,
                 imageBase64, inFlight, callLog, written, outcomes, authError, result>>
  /\ UNCHANGED serverVars
  /\ UNCHANGED <<response, thrown>>

\* openImagePreview: the open command of one file ends, well or not; a
\* failure is logged and swallowed
OpenImagePreviewEnds ==
  /\ pc = "preview"
  /\ \E k \in 1..Len(opens) :
       /\ opens[k] = "running"
       /\ \E how \in {"opened", "failed"} : opens' = [opens EXCEPT ![k] = how]
  /\ UNCHANGED <<op, pc, request, storyType, prompts, i, generatedFiles, firstError,
                 imageBase64, inFlight, callLog, written, outcomes, authError, result>>
  /\ UNCHANGED serverVars
  /\ UNCHANGED <<response, thrown>>

\* ---------------------------------------------------- generateTextToImage
\* the entry of generateTextToImage: ensureOutputDirectory, which may throw
\* into the outer catch, then buildBatchPrompts
StartGenerate ==
  /\ CanInvoke
  /\ \E name \in GenerateTools : \E r \in RequestsOfTool(name) :
       /\ Dispatch(name)
       /\ op' = "generate"
       /\ request' = r
       /\ \/ /\ prompts' = buildBatchPrompts(r)
             /\ pc' = "loop"
             /\ result' = NoResult /\ thrown' = NoError
          \/ \E e \in IoErrors :
               /\ thrown' = e
               /\ prompts' = <<>>
               /\ Return(MkResult(FALSE, "Failed to generate image", <<>>, handleApiError(e)))
  /\ Fresh
  /\ UNCHANGED storyType

\* GenIssueCall that does not await the call before the next prompt
GenIssueCall_NoAwait ==
  /\ op = "generate" /\ pc = "loop"
  /\ i < Len(prompts)
  /\ inFlight' = inFlight + 1
  /\ callLog' = Append(callLog, i)
  /\ i' = i + 1
  /\ UNCHANGED <<op, pc, request, storyType, prompts, generatedFiles, firstError,
                 imageBase64, written, outcomes, authError, opens, result>>
  /\ UNCHANGED serverVars
  /\ UNCHANGED <<response, thrown>>

\* the loop condition holds: generateContent is called for prompts[i]
GenIssueCall ==
  /\ op = "generate" /\ pc = "loop"
  /\ i < Len(prompts)
  /\ inFlight' = inFlight + 1
  /\ callLog' = Append(callLog, i)
  /\ pc' = "await"
  /\ UNCHANGED <<op, request, storyType, prompts, i, generatedFiles, firstError, imageBase64,
                 written, outcomes, authError, opens, result>>
  /\ UNCHANGED serverVars
  /\ UNCHANGED <<response, thrown>>

\* the call returns a response, which is scanned for its first image; with
\* none the loop goes on, with one saveImageFromBase64 is awaited
GenCallReturns ==
  /\ op = "generate" /\ pc = "await"
  /\ inFlight' = inFlight - 1
  /\ \E resp \in Responses :
       IF ResponseHasImage(resp)
       THEN /\ imageBase64' = resp.parts[FirstImagePart(resp.parts)]
            /\ pc' = "save"
            /\ UNCHANGED <<i, outcomes>>
       ELSE /\ imageBase64' = NoImage
            /\ pc' = "loop"
            /\ i' = i + 1
            /\ outcomes' = Append(outcomes, "noimage")
  /\ UNCHANGED <<op, request, storyType, prompts, generatedFiles, firstError, callLog,
                 written, authError, opens, result>>
  /\ UNCHANGED serverVars
  /\ UNCHANGED <<response, thrown>>

\* the prompt text generateFilename gets
GenFilenameText(req, currentPrompt) ==
  IF req.styles # NoList \/ req.variations # NoList THEN currentPrompt ELSE req.prompt

\* the file is written: its path is pushed and the scan stops (break)
GenSaveDone ==
  /\ op = "generate" /\ pc = "save"
  /\ LET filename == generateFilename(GenFilenameText(request, prompts[i + 1]),
                                      request.fileFormat, i)
         fullPath == SavedPath(OutputDir, filename)
     IN  /\ generatedFiles' = Append(generatedFiles, fullPath)
         /\ written' = Append(written, fullPath)
  /\ outcomes' = Append(outcomes, "image")
  /\ imageBase64' = NoImage
  /\ i' = i + 1
  /\ pc' = "loop"
  /\ UNCHANGED <<op, request, storyType, prompts, firstError, inFlight, callLog, authError,
                 opens, result>>
  /\ UNCHANGED serverVars
  /\ UNCHANGED <<response, thrown>>

\* GenCatch that keeps the message of the last failure instead of the first
GenCatch_LastError(e, how) ==
  LET errorMessage == handleApiError(e)
  IN  /\ firstError' = errorMessage
      /\ thrown' = IF thrown = NoError THEN e ELSE thrown
      /\ outcomes' = Append(outcomes, how)
      /\ imageBase64' = NoImage
      /\ IF IsAuthMessage(errorMessage)
         THEN /\ Return(MkResult(FALSE, "Image generation failed", <<>>, errorMessage))
              /\ UNCHANGED i
         ELSE /\ pc' = "loop"
              /\ i' = i + 1
              /\ UNCHANGED result

\* GenCatch without the authentication check: every failure goes on
GenCatch_NoAuthStop(e, how) ==
  LET errorMessage == handleApiError(e)
  IN  /\ firstError' = IF firstError = <<>> THEN errorMessage ELSE firstError
      /\ thrown' = IF thrown = NoError THEN e ELSE thrown
      /\ outcomes' = Append(outcomes, how)
      /\ imageBase64' = NoImage
      /\ pc' = "loop"
      /\ i' = i + 1
      /\ UNCHANGED result

\* GenCatch that tries the failed prompt again
GenCatch_Retry(e, how) ==
  LET errorMessage == handleApiError(e)
  IN  /\ firstError' = IF firstError = <<>> THEN errorMessage ELSE firstError
      /\ thrown' = IF thrown = NoError THEN e ELSE thrown
      /\ outcomes' = Append(outcomes, how)
      /\ imageBase64' = NoImage
      /\ IF IsAuthMessage(errorMessage)
         THEN /\ Return(MkResult(FALSE, "Image generation failed", <<>>, errorMessage))
              /\ UNCHANGED i
         ELSE /\ pc' = "loop"
              /\ UNCHANGED <<i, result>>

\* the catch of one prompt, entered with the thrown value: the first message
\* is kept, an authentication message returns at once, others go on
GenCatch(e, how) ==
  LET errorMessage == handleApiError(e)
  IN  /\ firstError' = IF firstError = <<>> THEN errorMessage ELSE firstError
      /\ thrown' = IF thrown = NoError THEN e ELSE thrown
      /\ outcomes' = Append(outcomes, how)
      /\ imageBase64' = NoImage
      /\ IF IsAuthMessage(errorMessage)
         THEN /\ Return(MkResult(FALSE, "Image generation failed", <<>>, errorMessage))
              /\ UNCHANGED i
         ELSE /\ pc' = "loop"
              /\ i' = i + 1
              /\ UNCHANGED result

\* the call throws
GenCallFails ==
  /\ op = "generate" /\ pc = "await"
  /\ inFlight' = inFlight - 1
  /\ \E e \in ApiErrors :
       /\ GenCatch(e, "callfailed")
       /\ authError' = IF IsAuthMessage(handleApiError(e)) THEN handleApiError(e)
                       ELSE authError
  /\ UNCHANGED <<op, request, storyType, prompts, generatedFiles, callLog, written, opens>>
  /\ UNCHANGED serverVars
  /\ UNCHANGED response

\* saveImageFromBase64 throws, into the same catch
GenSaveFails ==
  /\ op = "generate" /\ pc = "save"
  /\ \E e \in IoErrors : GenCatch(e, "savefailed")
  /\ UNCHANGED <<op, request, storyType, prompts, generatedFiles, inFlight, callLog,
                 written, authError, opens>>
  /\ UNCHANGED serverVars
  /\ UNCHANGED response

\* GenFinish without the check for an empty file list
GenFinish_NoEmptyCheck ==
  /\ op = "generate" /\ pc = "loop"
  /\ i >= Len(prompts)
  /\ opens' = handlePreview(generatedFiles, request)
  /\ pc' = "preview"
  /\ UNCHANGED <<op, request, storyType, prompts, i, generatedFiles, firstError,
                 imageBase64, inFlight, callLog, written, outcomes, authError, result>>
  /\ UNCHANGED serverVars
  /\ UNCHANGED <<response, thrown>>

\* after the loop: no file is a failure, else handlePreview is awaited
GenFinish ==
  /\ op = "generate" /\ pc = "loop"
  /\ i >= Len(prompts)
  /\ IF Len(generatedFiles) = 0
     THEN /\ Return(MkResult(FALSE, "Failed to generate any images", <<>>,
                             IF firstError # <<>> THEN firstError
                             ELSE <<"No image data found in API responses">>))
          /\ UNCHANGED opens
     ELSE /\ opens' = handlePreview(generatedFiles, request)
          /\ pc' = "preview"
          /\ UNCHANGED result
  /\ UNCHANGED <<op, request, storyType, prompts, i, generatedFiles, firstError, imageBase64,
                 inFlight, callLog, written, outcomes, authError>>
  /\ UNCHANGED serverVars
  /\ UNCHANGED <<response, thrown>>

\* GenReturnSuccess that reports a failed open command as a failure
GenReturnSuccess_PreviewErrorFails ==
  /\ op = "generate" /\ pc = "preview"
  /\ PreviewSettled
  /\ IF \E k \in 1..Len(opens) : opens[k] = "failed"
     THEN Return(MkResult(FALSE, "Failed to generate image", <<>>,
                          <<"An unexpected error occurred: ", "preview failed">>))
     ELSE Return(MkResult(TRUE,
                          "Successfully generated " \o ToString(Len(generatedFiles)) \o
                            " image variation(s)",
                          generatedFiles, <<>>))
  /\ UNCHANGED <<op, request, storyType, prompts, i, generatedFiles, firstError,
                 imageBase64, inFlight, callLog, written, outcomes, authError, opens>>
  /\ UNCHANGED serverVars
  /\ UNCHANGED <<response, thrown>>

\* handlePreview has settled: the success result
GenReturnSuccess ==
  /\ op = "generate" /\ pc = "preview"
  /\ PreviewSettled
  /\ Return(MkResult(TRUE,
                     "Successfully generated " \o ToString(Len(generatedFiles)) \o
                       " image variation(s)",
                     generatedFiles, <<>>))
  /\ UNCHANGED <<op, request, storyType, prompts, i, generatedFiles, firstError, imageBase64,
                 inFlight, callLog, written, outcomes, authError, opens>>
  /\ UNCHANGED serverVars
  /\ UNCHANGED <<response, thrown>>

\* -------------------------------------------------- generateStorySequence
\* steps = request.outputCount || 4
StorySteps(req) == IF req.outputCount # 0 THEN req.outputCount ELSE DefaultSteps

\* the phrase the switch on type adds to a step prompt
StoryTypePhrase(type, style) ==
  CASE type = "story" -> ", narrative sequence, " \o style \o " art style"
    [] type = "process" -> ", procedural step, instructional illustration"
    [] type = "tutorial" -> ", tutorial step, educational diagram"
    [] type = "timeline" -> ", chronological progression, timeline visualization"
    [] OTHER -> ""

\* stepPrompt of step index idx (0-based), with the default style and transition
StepPrompt(req, type, idx) ==
  req.prompt \o ", step " \o ToString(idx + 1) \o " of " \o ToString(StorySteps(req)) \o
  StoryTypePhrase(type, "consistent") \o
  (IF idx > 0 THEN ", smooth transition from previous step" ELSE "")

\* the entry of generateStorySequence
StartStory ==
  /\ CanInvoke
  /\ \E r \in StoryRequests, t \in StoryTypes :
       /\ Dispatch("generate_story")
       /\ op' = "story"
       /\ request' = r
       /\ storyType' = t
       /\ \/ /\ pc' = "loop"
             /\ result' = NoResult /\ thrown' = NoError
          \/ \E e \in IoErrors :
               /\ thrown' = e
               /\ Return(MkResult(FALSE, "Failed to generate " \o r.mode \o " sequence", <<>>,
                               handleApiError(e)))
  /\ prompts' = <<>>
  /\ Fresh

\* the loop condition holds: generateContent is called for step i + 1
StoryIssueCall ==
  /\ op = "story" /\ pc = "loop"
  /\ i < StorySteps(request)
  /\ inFlight' = inFlight + 1
  /\ callLog' = Append(callLog, i)
  /\ pc' = "await"
  /\ UNCHANGED <<op, request, storyType, prompts, i, generatedFiles, firstError,
                 imageBase64, written, outcomes, authError, opens, result>>
  /\ UNCHANGED serverVars
  /\ UNCHANGED <<response, thrown>>

\* the call returns a response, which is scanned for its first image
StoryCallReturns ==
  /\ op = "story" /\ pc = "await"
  /\ inFlight' = inFlight - 1
  /\ \E resp \in Responses :
       IF ResponseHasImage(resp)
       THEN /\ imageBase64' = resp.parts[FirstImagePart(resp.parts)]
            /\ pc' = "save"
            /\ UNCHANGED <<i, outcomes>>
       ELSE /\ imageBase64' = NoImage
            /\ pc' = "loop"
            /\ i' = i + 1
            /\ outcomes' = Append(outcomes, "noimage")
  /\ UNCHANGED <<op, request, storyType, prompts, generatedFiles, firstError, callLog,
                 written, authError, opens, result>>
  /\ UNCHANGED serverVars
  /\ UNCHANGED <<response, thrown>>

\* the step's file is written and its path pushed
StorySaveDone ==
  /\ op = "story" /\ pc = "save"
  /\ LET filename == generateFilename(storyType \o "step" \o ToString(i + 1) \o
                                        request.prompt, "png", 0)
         fullPath == SavedPath(OutputDir, filename)
     IN  /\ generatedFiles' = Append(generatedFiles, fullPath)
         /\ written' = Append(written, fullPath)
  /\ outcomes' = Append(outcomes, "image")
  /\ imageBase64' = NoImage
  /\ i' = i + 1
  /\ pc' = "loop"
  /\ UNCHANGED <<op, request, storyType, prompts, firstError, inFlight, callLog,
                 authError, opens, result>>
  /\ UNCHANGED serverVars
  /\ UNCHANGED <<response, thrown>>

\* the catch of one step
StoryCatch(e, how) ==
  LET errorMessage == handleApiError(e)
  IN  /\ firstError' = IF firstError = <<>> THEN errorMessage ELSE firstError
      /\ thrown' = IF thrown = NoError THEN e ELSE thrown
      /\ outcomes' = Append(outcomes, how)
      /\ imageBase64' = NoImage
      /\ IF IsAuthMessage(errorMessage)
         THEN /\ Return(MkResult(FALSE, "Story generation failed", <<>>, errorMessage))
              /\ UNCHANGED i
         ELSE /\ pc' = "loop"
              /\ i' = i + 1
              /\ UNCHANGED result

\* the call throws
StoryCallFails ==
  /\ op = "story" /\ pc = "await"
  /\ inFlight' = inFlight - 1
  /\ \E e \in ApiErrors :
       /\ StoryCatch(e, "callfailed")
       /\ authError' = IF IsAuthMessage(handleApiError(e)) THEN handleApiError(e)
                       ELSE authError
  /\ UNCHANGED <<op, request, storyType, prompts, generatedFiles, callLog, written, opens>>
  /\ UNCHANGED serverVars
  /\ UNCHANGED response

\* saveImageFromBase64 throws, into the same catch
StorySaveFails ==
  /\ op = "story" /\ pc = "save"
  /\ \E e \in IoErrors : StoryCatch(e, "savefailed")
  /\ UNCHANGED <<op, request, storyType, prompts, generatedFiles, inFlight, callLog,
                 written, authError, opens>>
  /\ UNCHANGED serverVars
  /\ UNCHANGED response

\* after the loop: no file is a failure, else handlePreview is awaited
StoryFinish ==
  /\ op = "story" /\ pc = "loop"
  /\ i >= StorySteps(request)
  /\ IF Len(generatedFiles) = 0
     THEN /\ Return(MkResult(FALSE, "Failed to generate any story sequence images", <<>>,
                             IF firstError # <<>> THEN firstError
                             ELSE <<"No image data found in API responses">>))
          /\ UNCHANGED opens
     ELSE /\ opens' = handlePreview(generatedFiles, request)
          /\ pc' = "preview"
          /\ UNCHANGED result
  /\ UNCHANGED <<op, request, storyType, prompts, i, generatedFiles, firstError,
                 imageBase64, inFlight, callLog, written, outcomes, authError>>
  /\ UNCHANGED serverVars
  /\ UNCHANGED <<response, thrown>>

\* successMessage of a sequence with n files out of steps
StoryMessage(n, steps, type) ==
  IF n = steps
  THEN "Successfully generated complete " \o ToString(steps) \o "-step " \o type \o
       " sequence"
  ELSE "Generated " \o ToString(n) \o " out of " \o ToString(steps) \o " requested " \o
       type \o " steps (" \o ToString(steps - n) \o " steps failed)"

\* handlePreview has settled: the success result
StoryReturnSuccess ==
  /\ op = "story" /\ pc = "preview"
  /\ PreviewSettled
  /\ Return(MkResult(TRUE,
                     StoryMessage(Len(generatedFiles), StorySteps(request), storyType),
                     generatedFiles, <<>>))
  /\ UNCHANGED <<op, request, storyType, prompts, i, generatedFiles, firstError,
                 imageBase64, inFlight, callLog, written, outcomes, authError, opens>>
  /\ UNCHANGED serverVars
  /\ UNCHANGED <<response, thrown>>


\* -------------------------------------------------------------- editImage
\* the entry of editImage (edit and restore): the inputImage check, the
\* lookup of the file, ensureOutputDirectory, then readImageAsBase64 is awaited
StartEdit ==
  /\ CanInvoke
  /\ \E r \in EditRequests :
       /\ Dispatch(r.mode \o "_image")
       /\ op' = "edit"
       /\ request' = r
       /\ IF r.inputImage = Undefined \/ r.inputImage = ""
          THEN /\ thrown' = NoError
               /\ Return(MkResult(FALSE, "Input image file is required for editing", <<>>,
                               <<"Missing inputImage parameter">>))
          ELSE LET fileResult == findInputFile(r.inputImage)
               IN  IF ~fileResult.found
                   THEN /\ thrown' = NoError
                        /\ Return(MkResult(FALSE, "Input image not found: " \o r.inputImage,
                                        <<>>,
                                        <<"Searched in: ">> \o fileResult.searchedPaths))
                   ELSE \/ /\ pc' = "read"
                           /\ result' = NoResult /\ thrown' = NoError
                        \/ \E e \in IoErrors :
                             /\ thrown' = e
                             /\ Return(MkResult(FALSE, "Failed to " \o r.mode \o " image",
                                             <<>>, handleApiError(e)))
  /\ Fresh
  /\ UNCHANGED <<storyType, prompts>>

\* the catch of editImage
EditCatch(e) ==
  /\ thrown' = IF thrown = NoError THEN e ELSE thrown
  /\ Return(MkResult(FALSE, "Failed to " \o request.mode \o " image", <<>>, handleApiError(e)))

\* the input image is read: generateContent is called
EditIssueCall ==
  /\ op = "edit" /\ pc = "read"
  /\ inFlight' = inFlight + 1
  /\ callLog' = Append(callLog, 0)
  /\ pc' = "await"
  /\ UNCHANGED <<op, request, storyType, prompts, i, generatedFiles, firstError,
                 imageBase64, written, outcomes, authError, opens, result>>
  /\ UNCHANGED serverVars
  /\ UNCHANGED <<response, thrown>>

\* readImageAsBase64 throws
EditReadFails ==
  /\ op = "edit" /\ pc = "read"
  /\ \E e \in IoErrors : EditCatch(e)
  /\ UNCHANGED <<op, request, storyType, prompts, i, generatedFiles, firstError,
                 imageBase64, inFlight, callLog, written, outcomes, authError, opens>>
  /\ UNCHANGED serverVars
  /\ UNCHANGED response

\* the call returns: without parts a failure; with parts the first image is
\* saved, and with no image handlePreview is awaited on the empty list
EditCallReturns ==
  /\ op = "edit" /\ pc = "await"
  /\ inFlight' = inFlight - 1
  /\ \E resp \in Responses :
       IF ~resp.hasParts
       THEN /\ Return(MkResult(FALSE, "Failed to " \o request.mode \o " image", <<>>,
                               <<"No image data in response">>))
            /\ outcomes' = Append(outcomes, "noparts")
            /\ UNCHANGED <<imageBase64, opens>>
       ELSE IF FirstImagePart(resp.parts) > 0
       THEN /\ imageBase64' = resp.parts[FirstImagePart(resp.parts)]
            /\ pc' = "save"
            /\ UNCHANGED <<outcomes, opens, result>>
       ELSE /\ opens' = handlePreview(generatedFiles, request)
            /\ outcomes' = Append(outcomes, "noimage")
            /\ pc' = "preview"
            /\ UNCHANGED <<imageBase64, result>>
  /\ UNCHANGED <<op, request, storyType, prompts, i, generatedFiles, firstError, callLog,
                 written, authError>>
  /\ UNCHANGED serverVars
  /\ UNCHANGED <<response, thrown>>

\* the call throws
EditCallFails ==
  /\ op = "edit" /\ pc = "await"
  /\ inFlight' = inFlight - 1
  /\ \E e \in ApiErrors :
       /\ EditCatch(e)
       /\ authError' = IF IsAuthMessage(handleApiError(e)) THEN handleApiError(e)
                       ELSE authError
  /\ outcomes' = Append(outcomes, "callfailed")
  /\ UNCHANGED <<op, request, storyType, prompts, i, generatedFiles, firstError,
                 imageBase64, callLog, written, opens>>
  /\ UNCHANGED serverVars
  /\ UNCHANGED response

\* the edited image is written; handlePreview is awaited
EditSaveDone ==
  /\ op = "edit" /\ pc = "save"
  /\ LET filename == generateFilename(request.mode \o "_" \o request.prompt, "png", 0)
         fullPath == SavedPath(OutputDir, filename)
     IN  /\ generatedFiles' = Append(generatedFiles, fullPath)
         /\ written' = Append(written, fullPath)
         /\ opens' = handlePreview(Append(generatedFiles, fullPath), request)
  /\ outcomes' = Append(outcomes, "image")
  /\ imageBase64' = NoImage
  /\ pc' = "preview"
  /\ UNCHANGED <<op, request, storyType, prompts, i, firstError, inFlight, callLog,
                 authError, result>>
  /\ UNCHANGED serverVars
  /\ UNCHANGED <<response, thrown>>

\* saveImageFromBase64 throws
EditSaveFails ==
  /\ op = "edit" /\ pc = "save"
  /\ \E e \in IoErrors : EditCatch(e)
  /\ outcomes' = Append(outcomes, "savefailed")
  /\ imageBase64' = NoImage
  /\ UNCHANGED <<op, request, storyType, prompts, i, generatedFiles, firstError, inFlight,
                 callLog, written, authError, opens>>
  /\ UNCHANGED serverVars
  /\ UNCHANGED response

\* EditReturnSuccess that reports a failure when no image was saved
EditReturnSuccess_FailsWhenEmpty ==
  /\ op = "edit" /\ pc = "preview"
  /\ PreviewSettled
  /\ IF Len(generatedFiles) = 0
     THEN Return(MkResult(FALSE, "Failed to " \o request.mode \o " image", <<>>,
                          <<"No image data in response">>))
     ELSE Return(MkResult(TRUE, "Successfully " \o request.mode \o "d image",
                          generatedFiles, <<>>))
  /\ UNCHANGED <<op, request, storyType, prompts, i, generatedFiles, firstError,
                 imageBase64, inFlight, callLog, written, outcomes, authError, opens>>
  /\ UNCHANGED serverVars
  /\ UNCHANGED <<response, thrown>>

\* handlePreview has settled: the result, success whatever the scan found
EditReturnSuccess ==
  /\ op = "edit" /\ pc = "preview"
  /\ PreviewSettled
  /\ Return(MkResult(TRUE, "Successfully " \o request.mode \o "d image", generatedFiles,
                     <<>>))
  /\ UNCHANGED <<op, request, storyType, prompts, i, generatedFiles, firstError,
                 imageBase64, inFlight, callLog, written, outcomes, authError, opens>>
  /\ UNCHANGED serverVars
  /\ UNCHANGED <<response, thrown>>

\* ------------------------------------------------------------- remixImage
\* the catch of remixImage
\* a catch of remixImage that throws the error on to the caller
RemixCatch_Rethrows(e) ==
  /\ thrown' = IF thrown = NoError THEN e ELSE thrown
  /\ result' = NoResult
  /\ pc' = "done"

\* the catch of remixImage
RemixCatch(e) ==
  /\ thrown' = IF thrown = NoError THEN e ELSE thrown
  /\ Return(MkResult(FALSE, "Failed to remix images.", <<>>, handleApiError(e)))

\* the count check that accepts a single input image
InsufficientInputs_One(req) == req.inputImages = NoList \/ Len(req.inputImages) < 1

\* !request.inputImages || request.inputImages.length < 2
InsufficientInputs(req) == req.inputImages = NoList \/ Len(req.inputImages) < 2

\* the entry of remixImage: the count check, then ensureOutputDirectory
StartRemix ==
  /\ CanInvoke
  /\ \E r \in RemixRequests :
       /\ Dispatch("remix_image")
       /\ op' = "remix"
       /\ request' = r
       /\ IF InsufficientInputs(r)
          THEN /\ thrown' = NoError
               /\ Return(MkResult(FALSE, "At least two input images are required for a remix.",
                               <<>>, <<"Missing or insufficient inputImages parameter">>))
          ELSE \/ /\ pc' = "inputs"
                  /\ result' = NoResult /\ thrown' = NoError
               \/ \E e \in IoErrors :
                    /\ thrown' = e
                    /\ Return(MkResult(FALSE, "Failed to remix images.", <<>>,
                                    handleApiError(e)))
  /\ Fresh
  /\ UNCHANGED <<storyType, prompts>>

\* RemixFindInput that skips an input that is not found
RemixFindInput_SkipsMissing ==
  /\ op = "remix" /\ pc = "inputs"
  /\ i < Len(request.inputImages)
  /\ IF ~findInputFile(request.inputImages[i + 1]).found
     THEN /\ i' = i + 1
          /\ UNCHANGED pc
     ELSE /\ pc' = "read"
          /\ UNCHANGED i
  /\ UNCHANGED <<op, request, storyType, prompts, generatedFiles, firstError, imageBase64,
                 inFlight, callLog, written, outcomes, authError, opens, result>>
  /\ UNCHANGED serverVars
  /\ UNCHANGED <<response, thrown>>

\* the loop over inputImages: the next file is looked up; when it is not
\* found the method returns, else readImageAsBase64 is awaited
RemixFindInput ==
  /\ op = "remix" /\ pc = "inputs"
  /\ i < Len(request.inputImages)
  /\ LET imagePath == request.inputImages[i + 1]
         fileResult == findInputFile(imagePath)
     IN  IF ~fileResult.found
         THEN /\ Return(MkResult(FALSE, "Input image not found: " \o imagePath, <<>>,
                                 <<"Searched in: ">> \o fileResult.searchedPaths))
              /\ outcomes' = Append(outcomes, "notfound")
         ELSE /\ pc' = "read"
              /\ UNCHANGED <<result, outcomes>>
  /\ UNCHANGED <<op, request, storyType, prompts, i, generatedFiles, firstError,
                 imageBase64, inFlight, callLog, written, authError, opens>>
  /\ UNCHANGED serverVars
  /\ UNCHANGED <<response, thrown>>

\* the file is read and pushed to parts
RemixReadDone ==
  /\ op = "remix" /\ pc = "read"
  /\ i' = i + 1
  /\ pc' = "inputs"
  /\ UNCHANGED <<op, request, storyType, prompts, generatedFiles, firstError, imageBase64,
                 inFlight, callLog, written, outcomes, authError, opens, result>>
  /\ UNCHANGED serverVars
  /\ UNCHANGED <<response, thrown>>

\* readImageAsBase64 throws
RemixReadFails ==
  /\ op = "remix" /\ pc = "read"
  /\ \E e \in IoErrors : RemixCatch(e)
  /\ UNCHANGED <<op, request, storyType, prompts, i, generatedFiles, firstError,
                 imageBase64, inFlight, callLog, written, outcomes, authError, opens>>
  /\ UNCHANGED serverVars
  /\ UNCHANGED response

\* every input is read: generateContent is called
RemixIssueCall ==
  /\ op = "remix" /\ pc = "inputs"
  /\ i >= Len(request.inputImages)
  /\ inFlight' = inFlight + 1
  /\ callLog' = Append(callLog, 0)
  /\ pc' = "await"
  /\ UNCHANGED <<op, request, storyType, prompts, i, generatedFiles, firstError,
                 imageBase64, written, outcomes, authError, opens, result>>
  /\ UNCHANGED serverVars
  /\ UNCHANGED <<response, thrown>>

\* the call returns: the first image is saved, with none a failure
RemixCallReturns ==
  /\ op = "remix" /\ pc = "await"
  /\ inFlight' = inFlight - 1
  /\ \E resp \in Responses :
       IF ResponseHasImage(resp)
       THEN /\ imageBase64' = resp.parts[FirstImagePart(resp.parts)]
            /\ pc' = "save"
            /\ UNCHANGED <<outcomes, result>>
       ELSE /\ Return(MkResult(FALSE, "Failed to remix images.", <<>>,
                               <<"No image data in response from model.">>))
            /\ outcomes' = Append(outcomes, "noimage")
            /\ UNCHANGED imageBase64
  /\ UNCHANGED <<op, request, storyType, prompts, i, generatedFiles, firstError, callLog,
                 written, authError, opens>>
  /\ UNCHANGED serverVars
  /\ UNCHANGED <<response, thrown>>

\* the call throws
RemixCallFails ==
  /\ op = "remix" /\ pc = "await"
  /\ inFlight' = inFlight - 1
  /\ \E e \in ApiErrors :
       /\ RemixCatch(e)
       /\ authError' = IF IsAuthMessage(handleApiError(e)) THEN handleApiError(e)
                       ELSE authError
  /\ outcomes' = Append(outcomes, "callfailed")
  /\ UNCHANGED <<op, request, storyType, prompts, i, generatedFiles, firstError,
                 imageBase64, callLog, written, opens>>
  /\ UNCHANGED serverVars
  /\ UNCHANGED response

\* the remixed image is written; handlePreview is awaited
RemixSaveDone ==
  /\ op = "remix" /\ pc = "save"
  /\ LET filename == generateFilename("remix_" \o request.prompt, "png", 0)
         fullPath == SavedPath(OutputDir, filename)
     IN  /\ generatedFiles' = Append(generatedFiles, fullPath)
         /\ written' = Append(written, fullPath)
         /\ opens' = handlePreview(Append(generatedFiles, fullPath), request)
  /\ outcomes' = Append(outcomes, "image")
  /\ imageBase64' = NoImage
  /\ pc' = "preview"
  /\ UNCHANGED <<op, request, storyType, prompts, i, firstError, inFlight, callLog,
                 authError, result>>
  /\ UNCHANGED serverVars
  /\ UNCHANGED <<response, thrown>>

\* saveImageFromBase64 throws
RemixSaveFails ==
  /\ op = "remix" /\ pc = "save"
  /\ \E e \in IoErrors : RemixCatch(e)
  /\ outcomes' = Append(outcomes, "savefailed")
  /\ imageBase64' = NoImage
  /\ UNCHANGED <<op, request, storyType, prompts, i, generatedFiles, firstError, inFlight,
                 callLog, written, authError, opens>>
  /\ UNCHANGED serverVars
  /\ UNCHANGED response

\* handlePreview has settled: the success result
RemixReturnSuccess ==
  /\ op = "remix" /\ pc = "preview"
  /\ PreviewSettled
  /\ Return(MkResult(TRUE, "Successfully remixed images.", generatedFiles, <<>>))
  /\ UNCHANGED <<op, request, storyType, prompts, i, generatedFiles, firstError,
                 imageBase64, inFlight, callLog, written, outcomes, authError, opens>>
  /\ UNCHANGED serverVars
  /\ UNCHANGED <<response, thrown>>


Next ==
  \/ StartGenerate
  \/ GenIssueCall
  \/ GenCallReturns
  \/ GenCallFails
  \/ GenSaveDone
  \/ GenSaveFails
  \/ GenFinish
  \/ GenReturnSuccess
  \/ StartStory
  \/ StoryIssueCall
  \/ StoryCallReturns
  \/ StoryCallFails
  \/ StorySaveDone
  \/ StorySaveFails
  \/ StoryFinish
  \/ StoryReturnSuccess
  \/ StartEdit
  \/ EditIssueCall
  \/ EditReadFails
  \/ EditCallReturns
  \/ EditCallFails
  \/ EditSaveDone
  \/ EditSaveFails
  \/ EditReturnSuccess
  \/ StartRemix
  \/ RemixFindInput
  \/ RemixReadDone
  \/ RemixReadFails
  \/ RemixIssueCall
  \/ RemixCallReturns
  \/ RemixCallFails
  \/ RemixSaveDone
  \/ RemixSaveFails
  \/ RemixReturnSuccess
  \/ OpenImagePreviewEnds
  \/ HandlerRespond
  \/ CallToolRejected
  \/ CallToolUnknown

Spec == Init /\ [][Next]_vars

\* the steps that follow from a settled promise or from synchronous code:
\* every step but the arrival of a tool call
Continues ==
  \/ GenIssueCall
  \/ GenCallReturns
  \/ GenCallFails
  \/ GenSaveDone
  \/ GenSaveFails
  \/ GenFinish
  \/ GenReturnSuccess
  \/ StoryIssueCall
  \/ StoryCallReturns
  \/ StoryCallFails
  \/ StorySaveDone
  \/ StorySaveFails
  \/ StoryFinish
  \/ StoryReturnSuccess
  \/ EditIssueCall
  \/ EditReadFails
  \/ EditCallReturns
  \/ EditCallFails
  \/ EditSaveDone
  \/ EditSaveFails
  \/ EditReturnSuccess
  \/ RemixFindInput
  \/ RemixReadDone
  \/ RemixReadFails
  \/ RemixIssueCall
  \/ RemixCallReturns
  \/ RemixCallFails
  \/ RemixSaveDone
  \/ RemixSaveFails
  \/ RemixReturnSuccess
  \/ OpenImagePreviewEnds
  \/ HandlerRespond

\* the event loop runs the continuation of every settled await, and every
\* external call, file operation and open command settles
SpecLive == Init /\ [][Next]_vars /\ WF_vars(Continues)

\* ---------------------------------------------- the constructor on its own
\* the server before its constructor ran, in any environment
InitAuth ==
  /\ pc = "boot"
  /\ GeneratorIdle
  /\ env \in Envs
  /\ authConfig = NoAuthConfig
  /\ initializationError = <<>>
  /\ toolName = ""
  /\ toolReply = NoReply

\* the constructor: new ImageGenerator(validateAuthentication()), or the
\* error caught into initializationError
Construct ==
  /\ pc = "boot"
  /\ pc' = "idle"
  /\ authConfig' = validateAuthentication(env).config
  /\ initializationError' = validateAuthentication(env).error
  /\ UNCHANGED <<op, request, storyType, prompts, i, generatedFiles, firstError,
                 imageBase64, inFlight, callLog, written, outcomes, authError, opens,
                 result, env, toolName, toolReply, response, thrown>>

NextAuth ==
  \/ Construct

SpecAuth == InitAuth /\ [][NextAuth]_vars

\* ------------------------------------------ the response scan on its own
\* a response just received for the first prompt
InitScan ==
  /\ pc = "scan"
  /\ op = "none"
  /\ request = IdleRequest
  /\ storyType = "story"
  /\ prompts = <<>>
  /\ i = 0
  /\ generatedFiles = <<>>
  /\ firstError = <<>>
  /\ imageBase64 = NoImage
  /\ inFlight = 0
  /\ callLog = <<>>
  /\ written = <<>>
  /\ outcomes = <<>>
  /\ authError = <<>>
  /\ opens = <<>>
  /\ result = NoResult
  /\ response \in ScanResponses
  /\ thrown = NoError
  /\ Constructed([NoEnv EXCEPT !["GOOGLE_API_KEY"] = "key-A"])

\* the loop over response.candidates[0].content.parts up to the part it
\* takes as the image
ScanResponse ==
  /\ pc = "scan"
  /\ IF ResponseHasImage(response)
     THEN /\ imageBase64' = response.parts[FirstImagePart(response.parts)]
          /\ pc' = "scansave"
     ELSE /\ imageBase64' = NoImage
          /\ pc' = "scanned"
  /\ UNCHANGED <<op, request, storyType, prompts, i, generatedFiles, firstError, inFlight,
                 callLog, written, outcomes, authError, opens, result>>
  /\ UNCHANGED serverVars
  /\ UNCHANGED <<response, thrown>>

\* the image is saved and the loop over the parts left (break); imageBase64
\* is kept here to tell which part was saved
ScanSave ==
  /\ pc = "scansave"
  /\ pc' = "scanned"
  /\ LET fullPath == SavedPath(OutputDir, generateFilename(request.prompt, request.fileFormat, i))
     IN  /\ generatedFiles' = Append(generatedFiles, fullPath)
         /\ written' = Append(written, fullPath)
  /\ UNCHANGED <<op, request, storyType, prompts, i, firstError, imageBase64, inFlight,
                 callLog, outcomes, authError, opens, result>>
  /\ UNCHANGED serverVars
  /\ UNCHANGED <<response, thrown>>

NextScan ==
  \/ ScanResponse
  \/ ScanSave

SpecScan == InitScan /\ [][NextScan]_vars

\* -------------------------------------- the classification on its own
\* a catch of the loop entered with a thrown value
InitClassify ==
  /\ pc = "catch"
  /\ op = "none"
  /\ request = IdleRequest
  /\ storyType = "story"
  /\ prompts = <<>>
  /\ i = 0
  /\ generatedFiles = <<>>
  /\ firstError = <<>>
  /\ imageBase64 = NoImage
  /\ inFlight = 0
  /\ callLog = <<>>
  /\ written = <<>>
  /\ outcomes = <<>>
  /\ authError = <<>>
  /\ opens = <<>>
  /\ result = NoResult
  /\ response = NoResponse
  /\ thrown \in ClassifyErrors
  /\ Constructed([NoEnv EXCEPT !["GOOGLE_API_KEY"] = "key-A"])

\* const errorMessage = this.handleApiError(error), kept as firstError, and
\* the test for 'authentication failed' on it
ClassifyThrown ==
  /\ pc = "catch"
  /\ pc' = "classified"
  /\ firstError' = handleApiError(thrown)
  /\ authError' = IF IsAuthMessage(handleApiError(thrown)) THEN handleApiError(thrown) ELSE <<>>
  /\ UNCHANGED <<op, request, storyType, prompts, i, generatedFiles, imageBase64, inFlight,
                 callLog, written, outcomes, opens, result>>
  /\ UNCHANGED serverVars
  /\ UNCHANGED <<response, thrown>>

NextClassify ==
  \/ ClassifyThrown

SpecClassify == InitClassify /\ [][NextClassify]_vars

\* ------------------------------------------- batch expansion on its own
\* a request about to be expanded
InitBatch ==
  /\ pc = "batch"
  /\ op = "none"
  /\ request \in BatchRequests
  /\ storyType = "story"
  /\ prompts = <<>>
  /\ i = 0
  /\ generatedFiles = <<>>
  /\ firstError = <<>>
  /\ imageBase64 = NoImage
  /\ inFlight = 0
  /\ callLog = <<>>
  /\ written = <<>>
  /\ outcomes = <<>>
  /\ authError = <<>>
  /\ opens = <<>>
  /\ result = NoResult
  /\ response = NoResponse
  /\ thrown = NoError
  /\ Constructed([NoEnv EXCEPT !["GOOGLE_API_KEY"] = "key-A"])

\* const prompts = this.buildBatchPrompts(request)
ExpandBatch ==
  /\ pc = "batch"
  /\ pc' = "expanded"
  /\ prompts' = buildBatchPrompts(request)
  /\ UNCHANGED <<op, request, storyType, i, generatedFiles, firstError, imageBase64,
                 inFlight, callLog, written, outcomes, authError, opens, result>>
  /\ UNCHANGED serverVars
  /\ UNCHANGED <<response, thrown>>

NextBatch ==
  \/ ExpandBatch

SpecBatch == InitBatch /\ [][NextBatch]_vars

\* ------------------------------------------------------------- properties
\* an invocation of method m has returned
Returned(m) == op = m /\ pc = "done" /\ result.returned

\* C1: every invocation of generateTextToImage returns success=true if and
\* only if at least one image file was written during that invocation.
C1_SuccessIffFileWritten ==
  Returned("generate") => (result.success <=> Len(written) >= 1)

\* C2: in the generate loop and in the story loop, once an external call has
\* failed with an authentication-class error the invocation has returned
\* success=false carrying that classified error, no call is in flight and no
\* further external call is issued in that invocation.
C2_AuthShortCircuit ==
  [][/\ (authError' # <<>> /\ op' \in {"generate", "story"}) =>
          /\ pc' = "done"
          /\ result'.returned
          /\ ~result'.success
          /\ result'.error = authError'
          /\ inFlight' = 0
     /\ (authError # <<>> /\ op \in {"generate", "story"}) =>
          Len(callLog') <= Len(callLog)]_vars

\* C2 witness: a generate batch stopped by an authentication failure with
\* prompts left that were never sent
C2_Witness ==
  /\ Returned("generate")
  /\ authError # <<>>
  /\ result.error = authError
  /\ Len(callLog) < Len(prompts)

\* C3: a result of generateTextToImage, generateStorySequence or remixImage
\* with success=true lists at least one path; a result with success=true and
\* an empty file list comes from editImage only.
C3_SuccessHasFile ==
  (pc = "done" /\ result.returned /\ result.success) =>
    /\ op \in {"generate", "story", "remix"} => Len(result.generatedFiles) >= 1
    /\ Len(result.generatedFiles) = 0 => op = "edit"

\* C3 witness: a successful remix
C3_Witness ==
  /\ Returned("remix")
  /\ result.success
  /\ Len(result.generatedFiles) = 1

\* the request of a remix has no inputImages or fewer than two
TooFewInputs(req) == req.inputImages = NoList \/ Len(req.inputImages) < 2

\* C4: remixImage with inputImages absent or shorter than two returns
\* success=false naming the minimum-count violation, issues no external
\* call and writes no file.
C4_RemixMinimumCount ==
  (op = "remix" /\ TooFewInputs(request)) =>
    /\ pc = "done"
    /\ result.returned
    /\ ~result.success
    /\ result.message = "At least two input images are required for a remix."
    /\ result.error = <<"Missing or insufficient inputImages parameter">>
    /\ callLog = <<>>
    /\ inFlight = 0
    /\ written = <<>>

\* C4 witness: a remix that was given exactly one input image
C4_Witness ==
  /\ Returned("remix")
  /\ request.inputImages # NoList
  /\ Len(request.inputImages) = 1

\* C5: a story sequence of N steps of which exactly k produced an image and
\* the other N-k failed, 0 < k < N, returns success=true, the message
\* "k out of N" and exactly the k paths in step order, however steps fail.
C5_StoryPartialSuccess ==
  (/\ Returned("story")
   /\ Len(outcomes) = StorySteps(request)
   /\ 0 < Len(written)
   /\ Len(written) < StorySteps(request)) =>
    /\ result.success
    /\ result.message =
         "Generated " \o ToString(Len(written)) \o " out of " \o
         ToString(StorySteps(request)) \o " requested " \o storyType \o " steps (" \o
         ToString(StorySteps(request) - Len(written)) \o " steps failed)"
    /\ result.generatedFiles = written

\* C6: generateStorySequence returns success=true whenever at least one step
\* produced and saved an image, and success=false only if no step did.
C6_StorySuccessIfAnyStep ==
  Returned("story") =>
    /\ Len(written) >= 1 => result.success
    /\ ~result.success => Len(written) = 0

\* the edit/restore call succeeded with parts none of which is an image
EditNoImage == Returned("edit") /\ outcomes = <<"noimage">>

NotFound(ref) == ~findInputFile(ref).found

\* C8: in edit/restore a missing inputImage or an input file that is not
\* found, and in remix any input file that is not found, returns
\* success=false with no external call issued; the not-found error carries
\* the list of directories searched.
C8_MissingInputNoCall ==
  /\ (op = "edit" /\ request.inputImage \in {Undefined, ""}) =>
       /\ pc = "done" /\ result.returned /\ ~result.success
       /\ callLog = <<>> /\ inFlight = 0
  /\ (op = "edit" /\ request.inputImage \notin {Undefined, ""}
        /\ NotFound(request.inputImage)) =>
       /\ pc = "done" /\ result.returned /\ ~result.success
       /\ result.error = <<"Searched in: ">> \o SearchDirs
       /\ callLog = <<>> /\ inFlight = 0
  /\ (op = "remix" /\ ~TooFewInputs(request)
        /\ \E k \in 1..Len(request.inputImages) : NotFound(request.inputImages[k])) =>
       /\ callLog = <<>> /\ inFlight = 0
       /\ pc \in {"inputs", "read", "done"}
       /\ pc = "done" => (result.returned /\ ~result.success)
       /\ (pc = "done" /\ outcomes = <<"notfound">>) =>
            /\ NotFound(request.inputImages[i + 1])
            /\ result.error = <<"Searched in: ">> \o SearchDirs

\* C8 witness: a remix whose first input was read and whose second is not found
C8_Witness ==
  /\ Returned("remix")
  /\ outcomes = <<"notfound">>
  /\ i = 1
  /\ ~NotFound(request.inputImages[1])
  /\ result.error = <<"Searched in: ">> \o SearchDirs

\* the indices 0, 1, ... n-1 in order
IndicesUpTo(n) == [k \in 1..n |-> k - 1]

\* C9: within one invocation of generateTextToImage or generateStorySequence
\* at most one external call is in flight, and the call of prompt/step i+1
\* is issued only after the call of prompt/step i has settled and its
\* response has been scanned and saved.
C9_SequentialCalls ==
  op \in {"generate", "story"} =>
    /\ inFlight <= 1
    /\ inFlight = 1 <=> pc = "await"
    /\ callLog = IndicesUpTo(Len(callLog))
    /\ Len(callLog) = Len(outcomes) + (IF pc \in {"await", "save"} THEN 1 ELSE 0)

\* C9 witness: the second call of a batch in flight after the first one's
\* image was saved
C9_Witness ==
  /\ op = "generate"
  /\ pc = "await"
  /\ inFlight = 1
  /\ callLog = <<0, 1>>
  /\ outcomes = <<"image">>

\* C10: no external call is retried: every prompt (generate) or step (story)
\* causes at most one call, so the calls never outnumber the prompts/steps,
\* and edit/restore/remix issue at most one call however it ends.
C10_NoRetry ==
  /\ \A a, b \in 1..Len(callLog) :
       (op \in {"generate", "story"} /\ callLog[a] = callLog[b]) => a = b
  /\ op = "generate" => Len(callLog) <= Len(prompts)
  /\ op = "story" => Len(callLog) <= StorySteps(request)
  /\ op \in {"edit", "remix"} => Len(callLog) <= 1

\* C10 witness: a batch that ended after a failed call, with as many calls
\* as prompts
C10_Witness ==
  /\ Returned("generate")
  /\ Len(prompts) >= 2
  /\ Len(callLog) = Len(prompts)
  /\ \E k \in 1..Len(outcomes) : outcomes[k] = "callfailed"

\* C11: preview open commands are issued only when the request asked for a
\* preview (preview set, noPreview not set), only after every file of the
\* request is written (no external call and no file write follows an open),
\* exactly one per written file, and the invocation returns only after
\* every open command has ended, well or not.
C11_PreviewAfterAllFiles ==
  [][/\ Len(opens') > 0 =>
          /\ request'.preview /\ ~request'.noPreview
          /\ Len(opens') = Len(written')
          /\ inFlight' = 0
          /\ pc' \in {"preview", "done"}
          /\ pc' = "done" => (result'.returned /\ \A k \in 1..Len(opens') : opens'[k] # "running")
     /\ (Len(opens) > 0 /\ pc' # "idle") =>
          /\ callLog' = callLog
          /\ written' = written
          /\ Len(opens') = Len(opens)]_vars

\* C11 witness: a returned invocation that opened its two files
C11_Witness ==
  /\ pc = "done"
  /\ result.returned
  /\ Len(opens) = 2
  /\ Len(written) = 2

\* the success message of a method that wrote the files fs
SuccessMessageOf(m, req, type, fs) ==
  CASE m = "generate" -> "Successfully generated " \o ToString(Len(fs)) \o " image variation(s)"
    [] m = "story" -> StoryMessage(Len(fs), StorySteps(req), type)
    [] m = "edit" -> "Successfully " \o req.mode \o "d image"
    [] OTHER -> "Successfully remixed images."

\* C12: the returned result (success flag, message, file list, error) is the
\* same whether each preview open command succeeds or fails, in any
\* combination and order: the end of an open command changes nothing but
\* that command's state, and the result of an invocation that opened
\* previews is the success result fixed by the files it wrote.
C12_PreviewFailureIgnored ==
  [][/\ (pc = "preview" /\ opens' # opens) =>
          UNCHANGED <<op, pc, request, storyType, prompts, i, generatedFiles, firstError, imageBase64, inFlight, callLog, written, outcomes, authError, result>>
     /\ (pc' = "done" /\ Len(opens') > 0) =>
          result' = MkResult(TRUE, SuccessMessageOf(op', request', storyType', written'), written', <<>>)]_vars

\* C12 witness: a returned invocation one of whose open commands failed
\* while another succeeded
C12_Witness ==
  /\ pc = "done"
  /\ result.returned
  /\ result.success
  /\ \E a, b \in 1..Len(opens) : opens[a] = "failed" /\ opens[b] = "opened"


\* C13: with no credential found at startup every tool call, whatever its
\* name, is answered with the one configuration error of the constructor;
\* no handler is dispatched and no generation call is issued.
C13_NoCredentialRejectsAll ==
  validateAuthentication(env).threw =>
    /\ initializationError = MsgNoApiKey
    /\ op = "none" /\ pc = "idle"
    /\ callLog = <<>> /\ inFlight = 0 /\ written = <<>>
    /\ toolName # "" => toolReply = MkReply(TRUE, MsgNoApiKey, "")

C13_Witness ==
  /\ initializationError # <<>>
  /\ toolName = "generate_image"
  /\ toolReply.threw /\ toolReply.error = initializationError

\* the request of a state of batch expansion, once expanded
Expanded == pc = "expanded"
NoStyles == request.styles = NoList \/ request.styles = <<>>
NoVariations == request.variations = NoList \/ request.variations = <<>>

\* the first n prompts of a list, the whole list for an absent count or a
\* count the list does not exceed
Truncated(list, n) == IF n # 0 /\ Len(list) > n THEN SubSeq(list, 1, n) ELSE list

\* C14: variations = ["lighting"] without styles gives the dramatic and the
\* soft lighting prompt, in that order, whatever outputCount is, cut to
\* outputCount when that is smaller than 2.
C14_LightingTwoPrompts ==
  (Expanded /\ NoStyles /\ request.variations = <<"lighting">>) =>
    prompts = Truncated(<<request.prompt \o ", dramatic lighting",
                          request.prompt \o ", soft lighting">>, request.outputCount)

C14_Witness ==
  /\ Expanded /\ NoStyles /\ request.variations = <<"lighting">>
  /\ request.outputCount = MaxCount
  /\ Len(prompts) = 2

\* one prompt per style, in the order of the styles
OnePerStyle ==
  [k \in 1..Len(request.styles) |-> request.prompt \o ", " \o request.styles[k] \o " style"]

\* C15 as stated: styles without variations give exactly one prompt per
\* style, in input order.
C15_OnePromptPerStyle ==
  (Expanded /\ ~NoStyles /\ NoVariations) => prompts = OnePerStyle

\* C15: styles without variations give one prompt per style, in input
\* order, cut to the first outputCount of them when outputCount is given
\* and smaller than the number of styles.
C15_OnePromptPerStyleTruncated ==
  (Expanded /\ ~NoStyles /\ NoVariations) =>
    prompts = Truncated(OnePerStyle, request.outputCount)

C15_Witness ==
  /\ Expanded /\ NoVariations
  /\ request.styles = <<"watercolor", "sketch">>
  /\ request.outputCount = 1
  /\ prompts = <<request.prompt \o ", watercolor style">>

\* the categories the switch knows
Recognised ==
  {"lighting", "angle", "color-palette", "composition", "mood", "season", "time-of-day"}
IsRecognised(variation) == variation \in Recognised
RecognisedOf(variations) ==
  IF variations = NoList THEN <<>> ELSE SelectSeq(variations, IsRecognised)

\* styles x recognised categories x the two phrasings, style-major
StyleMajor ==
  LET rec == RecognisedOf(request.variations)
      perStyle == 2 * Len(rec)
  IN  [n \in 1..(Len(request.styles) * perStyle) |->
         OnePerStyle[((n - 1) \div perStyle) + 1] \o
           VariationPhrases(rec[(((n - 1) % perStyle) \div 2) + 1])[((n - 1) % 2) + 1]]

\* C16: with styles and at least one recognised category the variation
\* step replaces the style list: the result is the 2 x |styles| x
\* |recognised| prompts in style-major order (cut at outputCount), and no
\* prompt with only a style suffix is left.
C16_VariationsReplaceStyles ==
  (Expanded /\ ~NoStyles /\ Len(RecognisedOf(request.variations)) > 0) =>
    /\ prompts = Truncated(StyleMajor, request.outputCount)
    /\ request.outputCount = 0 =>
         Len(prompts) = 2 * Len(request.styles) * Len(RecognisedOf(request.variations))
    /\ \A k \in 1..Len(prompts), n \in 1..Len(request.styles) : prompts[k] # OnePerStyle[n]

C16_Witness ==
  /\ Expanded
  /\ request.styles = <<"watercolor", "sketch">>
  /\ request.variations = <<"angle", "bogus", "season">>
  /\ request.outputCount = 0
  /\ Len(prompts) = 8
  /\ prompts[3] = request.prompt \o ", watercolor style, in spring"
  /\ prompts[5] = request.prompt \o ", sketch style, from above"

\* C17 as stated: the result is a prefix of the accumulated list, of length
\* min(accumulated length, outputCount) for outputCount >= 1.
C17_ResultIsPrefix ==
  Expanded =>
    LET acc == AccumulatedPrompts(request)
    IN  /\ Len(prompts) <= Len(acc)
        /\ prompts = SubSeq(acc, 1, Len(prompts))
        /\ request.outputCount >= 1 =>
             Len(prompts) = IF Len(acc) < request.outputCount THEN Len(acc)
                            ELSE request.outputCount

\* C17: a non-empty accumulated list is returned cut to its first
\* outputCount entries when it has more, unchanged (never padded) when it
\* has fewer, so the length is min(accumulated length, outputCount) for
\* outputCount >= 1; an empty accumulated list gives [basePrompt].
C17_ResultIsPrefixOrBase ==
  Expanded =>
    LET acc == AccumulatedPrompts(request)
    IN  IF Len(acc) = 0 THEN prompts = <<request.prompt>>
        ELSE /\ Len(prompts) <= Len(acc)
             /\ prompts = SubSeq(acc, 1, Len(prompts))
             /\ request.outputCount >= 1 =>
                  Len(prompts) = IF Len(acc) < request.outputCount THEN Len(acc)
                                 ELSE request.outputCount
             /\ request.outputCount = 0 => prompts = acc

C17_Witness ==
  /\ Expanded
  /\ request.styles = <<"watercolor", "sketch">>
  /\ NoVariations
  /\ request.outputCount = MaxCount
  /\ Len(prompts) = 2

\* C18: a category the switch does not know adds no prompt and no error:
\* the result is the result of the request without it.
C18_UnknownCategoryIgnored ==
  (Expanded /\ request.variations # NoList
     /\ Len(RecognisedOf(request.variations)) < Len(request.variations)) =>
    prompts = buildBatchPrompts([request EXCEPT !.variations = RecognisedOf(request.variations)])

C18_Witness ==
  /\ Expanded
  /\ request.variations = <<"bogus", "lighting">>
  /\ request.styles = <<"watercolor">>
  /\ request.outputCount = 0
  /\ prompts = <<request.prompt \o ", watercolor style, dramatic lighting",
                 request.prompt \o ", watercolor style, soft lighting">>

\* C19: no styles, no variation categories and outputCount absent or at
\* most 1 give exactly [basePrompt], the base prompt as it was.
C19_PlainRequestGivesBase ==
  (Expanded /\ NoStyles /\ NoVariations /\ request.outputCount <= 1) =>
    prompts = <<BasePrompt>>

C19_Witness ==
  /\ Expanded
  /\ request.styles = NoList /\ request.variations = NoList
  /\ request.outputCount = 1
  /\ prompts = <<BasePrompt>>

\* the settings that are present, and the kind of each setting
Present(name) == env[name] # Undefined /\ env[name] # ""
KindOf(name) ==
  IF name \in {"NANOBANANA_GEMINI_API_KEY", "GEMINI_API_KEY"} THEN "GEMINI_API_KEY"
  ELSE "GOOGLE_API_KEY"

\* C20: the resolver returns the value of the first present setting in the
\* order NANOBANANA_GEMINI_API_KEY, NANOBANANA_GOOGLE_API_KEY,
\* GEMINI_API_KEY, GOOGLE_API_KEY, tagged by that setting's kind, and fails
\* with an error naming the four settings exactly when none is present.
C20_FirstPresentSetting ==
  pc = "idle" =>
    IF \E k \in 1..Len(EnvNames) : Present(EnvNames[k])
    THEN \E k \in 1..Len(EnvNames) :
           /\ Present(EnvNames[k])
           /\ \A j \in 1..(k - 1) : ~Present(EnvNames[j])
           /\ authConfig = [apiKey |-> env[EnvNames[k]], keyType |-> KindOf(EnvNames[k])]
           /\ initializationError = <<>>
    ELSE /\ authConfig = NoAuthConfig
         /\ initializationError # <<>>
         /\ \A k \in 1..Len(EnvNames) : Includes(initializationError, EnvNames[k])

C20_Witness ==
  /\ pc = "idle"
  /\ env["NANOBANANA_GEMINI_API_KEY"] = "" /\ env["NANOBANANA_GOOGLE_API_KEY"] = Undefined
  /\ env["GEMINI_API_KEY"] = Undefined /\ env["GOOGLE_API_KEY"] = "key-B"
  /\ authConfig = [apiKey |-> "key-B", keyType |-> "GOOGLE_API_KEY"]


\* a part the claim takes as an image: inline data, or a text of base64
\* characters of at least 1000 characters
Qualifies(part) == part.inlineLen > 0 \/ (part.textB64 /\ part.textLen >= 1000)
PartsOf(resp) == IF resp.hasParts THEN resp.parts ELSE <<>>

\* C21: the scanner takes the first part with inline data or with a base64
\* text of at least 1000 characters and stops there, so one call saves at
\* most one image and later parts do not matter; with no such part it
\* reports no image and raises no error.
C21_FirstQualifyingPart ==
  pc \in {"scansave", "scanned"} =>
    LET parts == PartsOf(response)
        Q == {k \in 1..Len(parts) : Qualifies(parts[k])}
    IN  /\ Q = {} => (imageBase64 = NoImage /\ written = <<>> /\ pc = "scanned")
        /\ Q # {} => \E k \in Q :
                       /\ \A j \in Q : k <= j
                       /\ imageBase64 = parts[k]
                       /\ pc = "scanned" => Len(written) = 1
        /\ Len(written) <= 1
        /\ thrown = NoError /\ firstError = <<>> /\ ~result.returned

C21_Witness ==
  /\ pc = "scanned"
  /\ response.parts = <<PartTextShort, PartTextFloor>>
  /\ imageBase64 = PartTextFloor
  /\ Len(written) = 1


\* a prompt that ended in the catch of the loop
IsFailure(how) == how \in {"callfailed", "savefailed"}
HasFailure(hows) == \E k \in 1..Len(hows) : IsFailure(hows[k])
HasFailedCall(hows) == \E k \in 1..Len(hows) : hows[k] = "callfailed"
FirstFailureIsCall(hows) ==
  \E k \in 1..Len(hows) : hows[k] = "callfailed" /\ \A j \in 1..(k - 1) : ~IsFailure(hows[j])
MsgNoImageData == <<"No image data found in API responses">>

\* C22 as stated: a generate invocation that ends with no file reports the
\* classified message of the first failed call, or the 'no image data'
\* message when no call failed.
C22_FirstFailedCallReported ==
  (Returned("generate") /\ written = <<>>) =>
    IF ~HasFailedCall(outcomes) THEN result.error = MsgNoImageData
    ELSE FirstFailureIsCall(outcomes) => result.error = handleApiError(thrown)

\* C22: in generate a failure of a prompt (its call or its save) that is
\* not authentication-class leaves the loop running at the next prompt (the
\* loop is left at a failure only with an authentication-class error), and
\* when the loop reaches its end with no file the reported error is the
\* classified message of the first failure in prompt order, or the 'no
\* image data' message when nothing failed.
C22_FirstFailureReported ==
  [][(op = "generate" /\ op' = "generate") =>
       /\ (Len(outcomes') = Len(outcomes) + 1 /\ IsFailure(outcomes'[Len(outcomes')])) =>
            /\ \/ pc' = "loop" /\ i' = i + 1 /\ ~result'.returned
               \/ pc' = "done" /\ result'.returned /\ IsAuthMessage(result'.error)
            /\ (~HasFailure(outcomes) /\ ~IsAuthMessage(handleApiError(thrown'))) =>
                 (pc' = "loop" /\ i' = i + 1 /\ ~result'.returned)
       /\ (pc = "loop" /\ pc' = "done") =>
            /\ written' = <<>>
            /\ result' = MkResult(FALSE, "Failed to generate any images", <<>>,
                                  IF HasFailure(outcomes') THEN handleApiError(thrown')
                                  ELSE MsgNoImageData)]_vars

C22_Witness ==
  /\ Returned("generate")
  /\ outcomes = <<"callfailed", "noimage", "callfailed">>
  /\ Len(callLog) = 3
  /\ thrown = ErrQuota403
  /\ result.error = MsgQuota


\* the text the classification reads: the message of an Error, the string
\* form in lower case of another thrown value
TextOf(e) == IF e.isError THEN e.message ELSE ToLowerMsg(e.message)

\* the class of a thrown value: the three substrings first, then the status
ClassOf(e) ==
  CASE Includes(TextOf(e), "api key not valid") -> "invalid-key"
    [] Includes(TextOf(e), "permission denied") -> "permission-denied"
    [] Includes(TextOf(e), "quota exceeded") -> "quota"
    [] e.hasResponse /\ e.status = 400 -> "status-400"
    [] e.hasResponse /\ e.status = 403 -> "status-403"
    [] e.hasResponse /\ e.status = 500 -> "status-500"
    [] e.hasResponse -> "status-other"
    [] OTHER -> "unknown"

\* the fixed message of each class
MessageOfClass(e) ==
  CASE ClassOf(e) = "invalid-key" ->
         <<"Authentication failed", ": The provided API key is invalid">>
    [] ClassOf(e) = "permission-denied" ->
         <<"Authentication failed", ": The provided API key does not have the necessary permissions">>
    [] ClassOf(e) = "quota" -> <<"API quota exceeded">>
    [] ClassOf(e) = "status-400" -> <<"The request was malformed">>
    [] ClassOf(e) = "status-403" ->
         <<"Authentication failed", ". Please ensure your API key is valid">>
    [] ClassOf(e) = "status-500" ->
         <<"The image generation service encountered a temporary internal error">>
    [] ClassOf(e) = "status-other" -> <<"API request failed with status ", ToString(e.status)>>
    [] OTHER -> <<"An unexpected error occurred: ">> \o TextOf(e)

AuthClasses == {"invalid-key", "permission-denied", "status-403"}
Classified == pc = "classified"

\* C23 as stated: the substrings decide before the status, and exactly the
\* invalid-key, permission-denied and status-403 classes are
\* authentication-class.
C23_OnlyThreeAuthClasses ==
  Classified =>
    /\ firstError = MessageOfClass(thrown)
    /\ (authError # <<>>) <=> (ClassOf(thrown) \in AuthClasses)

\* C23: the substrings decide before the status, a status 400/403/500 has
\* its fixed message, anything else is wrapped; the authentication-class
\* errors are the invalid-key, permission-denied and status-403 classes and
\* the unknown errors whose own text holds 'authentication failed' in any
\* letter case.
C23_AuthClassesAndRawText ==
  Classified =>
    /\ firstError = MessageOfClass(thrown)
    /\ (authError # <<>>) <=>
         \/ ClassOf(thrown) \in AuthClasses
         \/ /\ ClassOf(thrown) = "unknown"
            /\ \E k \in 1..Len(thrown.message) :
                 thrown.message[k] \in {"authentication failed", "Authentication Failed"}

C23_Witness ==
  /\ Classified
  /\ thrown = MkError(TRUE, <<"Authentication Failed">>, FALSE, 0)
  /\ firstError = <<"An unexpected error occurred: ", "Authentication Failed">>
  /\ authError = firstError


\* C24: the four methods end in a returned result, never in an exception
\* handed to the caller; when something threw inside the invocation
\* (directory creation, input read, external call, file save) and no file
\* was written, the result has success=false and a non-empty error.
C24_NoExceptionEscapes ==
  pc = "done" =>
    /\ op \in {"generate", "story", "edit", "remix"}
    /\ result.returned
    /\ (thrown # NoError /\ written = <<>>) => (~result.success /\ result.error # <<>>)

C24_Witness ==
  /\ Returned("remix")
  /\ thrown = ErrNoSpace
  /\ outcomes = <<"savefailed">>
  /\ written = <<>>
  /\ ~result.success
  /\ result.error = <<"An unexpected error occurred: ", "ENOSPC: ", "no space left on device">>

\* the prompts or steps of an invocation that ended with a saved image
SavedSteps(hows) == {k \in 1..Len(hows) : hows[k] = "image"}

\* C25: when generate or story returns, the returned generatedFiles are
\* exactly the files written in the invocation, in prompt or step order and
\* at most one per prompt or step, and the count of the success message is
\* the length of that list.
C25_WrittenFilesReported ==
  (pc = "done" /\ result.returned /\ op \in {"generate", "story"}) =>
    /\ result.generatedFiles = written
    /\ Len(written) = Cardinality(SavedSteps(outcomes))
    /\ Len(outcomes) <= (IF op = "generate" THEN Len(prompts) ELSE StorySteps(request))
    /\ result.success =>
         result.message =
           IF op = "generate"
           THEN "Successfully generated " \o ToString(Len(result.generatedFiles)) \o
                " image variation(s)"
           ELSE StoryMessage(Len(result.generatedFiles), StorySteps(request), storyType)


\* an invocation that has not returned yet
Pending == pc \in {"loop", "await", "save", "read", "inputs", "preview"}

\* C26: when every external call, file operation and open command settles,
\* every invocation returns a result; and while an external call has not
\* settled the invocation does nothing: the only step from there is the
\* settling of that call, so without it there is no later call, no file
\* write and no result.
C26_ReturnsUnlessCallHangs ==
  /\ Pending ~> (pc = "done" /\ result.returned)
  /\ [][pc = "await" =>
          /\ inFlight = 1 /\ ~result.returned
          /\ inFlight' = 0 /\ callLog' = callLog /\ written' = written]_vars

C26_Witness ==
  /\ pc = "done" /\ result.returned
  /\ Len(callLog) = 3
  /\ Len(written) = 2
  /\ Len(opens) = 2

====
